---- MODULE Spec2Model ----
(***************************************************************************)
(* Model of the card tracking pipeline of blackjack-cv-ev-engine:          *)
(*   psrc/detection/card_tracker.py   Track, TrackState, CardTracker       *)
(*   psrc/evaluation/card_deck.py     CardDeck                             *)
(*   main.py                          the confirmation callback (line 41)  *)
(*   psrc/detection/hand_tracker.py   HandTracker                          *)
(*   psrc/detection/detection_utils.py  compute_overlap, group_cards       *)
(* Specifications:                                                         *)
(*   Spec      a CardTracker fed one detection dict per update, built by   *)
(*             its constructor with the callback main.py writes for it     *)
(*   DeckSpec  a CardDeck driven by add_card / remove_card calls           *)
(*   HandSpec  a HandTracker fed any track map at every update             *)
(*   ScoreSpec HandTracker._score_hand applied to lists of ranks           *)
(*   GroupSpec the two grouping routines applied to the same boxes         *)
(*   OverlapSpec  detection_utils.compute_overlap applied to pairs of boxes*)
(*   IouSpec   CardTracker._compute_iou applied to pairs of boxes          *)
(*   EvalSpec  HandEvaluator.evaluate_hands over an EV engine whose calls  *)
(*             return a value or raise                                     *)
(*   ConfSpec  the tracker fed detection dicts with a "confidence" entry   *)
(*   AssocSpec the tracker on the four overlapping boxes, up to four ids   *)
(*   EngineSpec  AnalysisEngine: the capture, analysis and display threads *)
(*             of start(), interleaved at every access to what they share  *)
(*   EngineFairSpec  EngineSpec with every thread scheduled again and again*)
(***************************************************************************)
EXTENDS Integers, Sequences, FiniteSets, TLC

(***************************************************************************)
(* Bounds of the model.                                                    *)
(***************************************************************************)
\* Largest number of detections in one frame.
MaxDetections == 2
\* Track ids are allocated while next_track_id stays <= MaxTrackId.
MaxTrackId == 3
\* An update is explored only while every hits counter stays
\* <= confirmation_frames + MaxExtraHits.
MaxExtraHits == 1
\* confirmation_frames is drawn from 1..MaxConfirmationFrames.
MaxConfirmationFrames == 5
\* removal_frames is drawn from 0..MaxRemovalFrames.
MaxRemovalFrames == 1
\* deck_count is drawn from 1..MaxDeckCount.
MaxDeckCount == 1
\* DeckSpec explores at most MaxDeckCalls add_card / remove_card calls.
MaxDeckCalls == 6
\* Largest number of tracks in the map handed to HandTracker.update.
MaxHandTracks == 4
\* Largest number of cards in a list handed to _score_hand.
MaxScoreCards == 3
\* Largest number of boxes in a list handed to the grouping routines.
MaxGroupBoxes == 4
\* Box coordinates of OverlapSpec and IouSpec run over 0 .. MaxCoord.
MaxCoord == 2
\* Largest number of EV engine calls that raise, among the calls the engine
\* can receive for one hands_info.
MaxEvFailures == 1
\* Number of frames the video source of EngineSpec delivers before None.
MaxFrames == 3
\* Largest value of the monotonic clock of EngineSpec.
MaxClock == 4
\* AssocSpec allocates track ids while next_track_id stays <= MaxAssocTrackId.
MaxAssocTrackId == 4

(***************************************************************************)
(* Inputs.  Boxes are (x1, y1, x2, y2); the four boxes overlap pairwise    *)
(* with IoU 3/5, 2/6, 1/7 and 0.  A run draws its detections from one      *)
(* scene: a single card, two cards lying apart, or all four boxes.         *)
(***************************************************************************)
Boxes == { <<0, 0, 4, 1>>, <<2, 0, 6, 1>>, <<3, 0, 7, 1>>, <<5, 0, 9, 1>> }
OneCard == { <<2, 0, 6, 1>> }
TwoCards == { <<0, 0, 4, 1>>, <<5, 0, 9, 1>> }
\* Detector class labels: an ace (0) and a face card (10).
Labels == {0, 10}
\* iou_threshold values, in percent.
IouThresholds == {50}
\* Labels handed to the deck in DeckSpec: buckets, face cards, non-buckets.
DeckLabels == {-1, 0, 8, 9, 10, 11, 12, 13}
\* Boxes on the table of the hand tracker: a row of three cards overlapping
\* their neighbour by 2/4 and 1/4 of a card, and below it a row of two.
HandBoxes == { <<0, 0, 4, 1>>, <<2, 0, 6, 1>>, <<5, 0, 9, 1>>,
               <<0, 5, 4, 6>>, <<3, 5, 7, 6>> }
\* The cards of the video of EngineSpec: two that overlap by half a card and,
\* in the row below, one that touches neither.
EngineBoxes == { <<0, 0, 4, 1>>, <<2, 0, 6, 1>>, <<0, 5, 4, 6>> }
\* Labels of the tracks handed to the hand tracker: an ace and a ten.
HandLabels == {0, 9}
\* overlap_threshold values, in percent.
OverlapThresholds == {10, 50}
\* Ranks handed to _score_hand.
Ranks == 0 .. 9
\* The boxes of OverlapSpec and IouSpec: every (x_min, y_min, x_max, y_max)
\* over the coordinates with x_min <= x_max and y_min <= y_max, the boxes of
\* zero area included.
GeoBoxes ==
  { b \in (0 .. MaxCoord) \X (0 .. MaxCoord) \X (0 .. MaxCoord) \X (0 .. MaxCoord) :
      b[1] <= b[3] /\ b[2] <= b[4] }

VARIABLES
  scene,                \* the boxes the detector reports in this run
  \* CardTracker fields
  tracks,               \* self.tracks: track_id -> Track
  next_track_id,        \* self.next_track_id
  confidence_threshold, \* self.confidence_threshold (percent)
  iou_threshold,        \* self.iou_threshold (percent)
  confirmation_frames,  \* self.confirmation_frames
  removal_frames,       \* self.removal_frames
  \* CardDeck fields
  deck_count,           \* the deck_count the deck was built with
  cards,                \* self.cards: bucket -> count
  \* the last CardTracker.update call
  detections,           \* its argument, in dict order
  solver,               \* the (track_id, detection index) pairs of linear_sum_assignment
  assignments,          \* the pairs accepted by _data_association
  returned,             \* the map it returned
  \* history
  callbacks,            \* track_id -> number of on_confirm_callback invocations
  remove_calls,         \* number of deck.remove_card calls made so far
  streak,               \* track_id -> consecutive updates containing the track
  absent,               \* track_id -> consecutive updates that left the track unmatched
  clean,                \* track_id -> the track was in every update since its spawn
  \* the CardDeck calls of DeckSpec
  deck_last,            \* the last call: its method, its argument, its return value
  deck_calls,           \* number of calls made
  \* HandTracker fields and the last HandTracker.update call
  overlap_threshold,    \* self.overlap_threshold (percent)
  hands,                \* self.hands: hand key -> [cards, score, boxes]
  hand_tracks,          \* the argument of the last update: its items, in dict order
  \* the last _score_hand call
  score_cards,          \* its argument
  score_ret,            \* its return value
  \* the last grouping of a list of boxes by both routines
  group_boxes,          \* the boxes
  group_threshold,      \* the threshold (percent)
  dfs_groups,           \* what detection_utils.group_cards returned
  uf_groups,            \* what HandTracker._group_cards returned
  \* the last pair of boxes handed to compute_overlap or to _compute_iou
  pair_boxes,           \* the two boxes
  overlap_ret,          \* compute_overlap of the pair, and of the swapped pair
  iou_ret,              \* interArea, the union area and the IoU of the pair,
                        \* and the IoU of the swapped pair
  \* the last call of HandEvaluator.evaluate_hands
  eval_hands,           \* its argument hands_info
  ev_engine,            \* what the EV engine does on each call: a value or raise
  eval_ret,             \* whether the call raised, the dict it returned, and the
                        \* self.deck.cards its EV calls were handed
  ev_calls,             \* the EV engine calls made, in order
  \* AnalysisEngine
  running,              \* self.running
  clock,                \* time.monotonic(), in ticks
  last_inference,       \* self.last_inference
  frame_queue,          \* self.frame_queue: frame numbers
  data_queue,           \* self.data_queue: result bundles
  frames_read,          \* frames the video reader has delivered
  capture,              \* the capture thread: position, frame, uncaught exception
  analysis,             \* the analysis thread: position, now, frame, bundle,
                        \* uncaught exception
  display,              \* the display thread: position, bundle
  displayed,            \* what display.update received last
  cycle_starts,         \* the clock values sampled by the iterations that went
                        \* on to dequeue a frame, in order
  stored                \* per queue, the frame number of the item stored last

vars == << scene, tracks, next_track_id, confidence_threshold, iou_threshold,
           confirmation_frames, removal_frames, deck_count, cards,
           detections, solver, assignments, returned,
           callbacks, remove_calls, streak, absent, clean,
           deck_last, deck_calls,
           overlap_threshold, hands, hand_tracks, score_cards, score_ret,
           group_boxes, group_threshold, dfs_groups, uf_groups,
           pair_boxes, overlap_ret, iou_ret,
           eval_hands, ev_engine, eval_ret, ev_calls,
           running, clock, last_inference, frame_queue, data_queue, frames_read,
           capture, analysis, display, displayed, cycle_starts, stored >>

trackerVars == << scene, tracks, next_track_id, confidence_threshold, iou_threshold,
                  confirmation_frames, removal_frames,
                  detections, solver, assignments, returned,
                  callbacks, remove_calls, streak, absent, clean >>

deckVars == << deck_count, cards, deck_last, deck_calls >>

handVars == << overlap_threshold, hands, hand_tracks >>

scoreVars == << score_cards, score_ret >>

groupVars == << group_boxes, group_threshold, dfs_groups, uf_groups >>

geoVars == << pair_boxes, overlap_ret, iou_ret >>

evalVars == << eval_hands, ev_engine, eval_ret, ev_calls >>

engineVars == << running, clock, last_inference, frame_queue, data_queue, frames_read,
                capture, analysis, display, displayed, cycle_starts, stored >>

\* The variables of the specifications that follow GroupSpec.
laterVars == << geoVars, evalVars, engineVars >>

(***************************************************************************)
(* TrackState                                                              *)
(***************************************************************************)
TENTATIVE == 0
CONFIRMED == 1
DELETED == 2

(***************************************************************************)
(* Helpers                                                                 *)
(***************************************************************************)
Min(a, b) == IF a <= b THEN a ELSE b
Max(a, b) == IF a >= b THEN a ELSE b

SetMin(S) == CHOOSE x \in S : \A y \in S : x <= y

\* The elements of a finite set of integers in ascending order.
RECURSIVE SortedSeq(_)
SortedSeq(S) ==
  IF S = {} THEN << >>
  ELSE LET m == SetMin(S) IN << m >> \o SortedSeq(S \ {m})

(***************************************************************************)
(* Geometry: CardTracker._compute_iou for one pair of boxes.               *)
(* Quotients are kept as integers in units of 10^-8 (eight decimal        *)
(* places, rounded down).  A threshold that is a multiple of 10^-8 then    *)
(* compares exactly: floor(x) >= n iff x >= n for an integer n.            *)
(***************************************************************************)
\* 1 / 1e-6, the epsilon added to the denominator.
EpsilonInv == 1000000

\* The first k decimal places of r / den, for 0 <= r < den, as an integer.
RECURSIVE FracDigits(_, _, _)
FracDigits(r, den, k) ==
  IF k = 0 THEN 0
  ELSE ((r * 10) \div den) * (10 ^ (k - 1)) + FracDigits((r * 10) % den, den, k - 1)

\* num / den in units of 10^-8, rounded down for den > 0; a negative
\* denominator turns the sign, as the float division does.
Quotient(num, den) ==
  IF den > 0
  THEN (num \div den) * (10 ^ 8) + FracDigits(num % den, den, 8)
  ELSE 0 - ((num \div (0 - den)) * (10 ^ 8) + FracDigits(num % (0 - den), 0 - den, 8))

\* One, and a percentage, in units of 10^-8.
One == 10 ^ 8
Percent(p) == p * (10 ^ 6)

Area(b) == (b[3] - b[1]) * (b[4] - b[2])

\* Variant of interArea: the width and height are not clipped at 0.
InterArea_unclipped(b1, b2) ==
  (Min(b1[3], b2[3]) - Max(b1[1], b2[1])) * (Min(b1[4], b2[4]) - Max(b1[2], b2[2]))

InterArea(b1, b2) ==
  LET xA == Max(b1[1], b2[1])
      yA == Max(b1[2], b2[2])
      xB == Min(b1[3], b2[3])
      yB == Min(b1[4], b2[4])
  IN  Max(0, xB - xA) * Max(0, yB - yA)

\* iou = interArea / (boxArea1 + boxArea2 - interArea + 1e-6)
compute_iou(b1, b2) ==
  LET inter == InterArea(b1, b2)
  IN  Quotient(inter * EpsilonInv,
               (Area(b1) + Area(b2) - inter) * EpsilonInv + 1)

\* iou_matrix over the boxes of the model.  (f @@ << >> is f: it has the
\* model checker tabulate the matrix once instead of at every lookup.)
iou_matrix ==
  [ p \in (Boxes \cup EngineBoxes) \X (Boxes \cup EngineBoxes) |->
      compute_iou(p[1], p[2]) ] @@ << >>

IoU(b1, b2) == iou_matrix[<< b1, b2 >>]

(***************************************************************************)
(* Track                                                                   *)
(***************************************************************************)
\* Variant of Track.__init__: the track starts Confirmed.
NewTrack_confirmed(track_id, bbox, label) ==
  [ track_id |-> track_id, bbox |-> bbox, label |-> label,
    state |-> CONFIRMED, hits |-> 1, misses |-> 0 ]

\* Track.__init__
NewTrack(track_id, bbox, label) ==
  [ track_id |-> track_id, bbox |-> bbox, label |-> label,
    state |-> TENTATIVE, hits |-> 1, misses |-> 0 ]

\* Track.register_hit
register_hit(track, bbox, label) ==
  [ track EXCEPT !.bbox = bbox, !.label = label, !.misses = 0, !.hits = @ + 1 ]

\* Variant of register_miss: a miss sends the track back to Tentative.
register_miss_demote(track) ==
  [ track EXCEPT !.misses = @ + 1, !.hits = 0, !.state = TENTATIVE ]

\* Variant of register_miss: a miss takes one hit away.
register_miss_decrement(track) ==
  [ track EXCEPT !.misses = @ + 1, !.hits = Max(0, @ - 1) ]

\* Variant of register_miss: the hit count is not reset.
register_miss_keep_hits(track) == [ track EXCEPT !.misses = @ + 1 ]

\* Track.register_miss
register_miss(track) ==
  [ track EXCEPT !.misses = @ + 1, !.hits = 0 ]

(***************************************************************************)
(* CardDeck                                                                *)
(***************************************************************************)
Buckets == 0 .. 9

\* Variant of __init__: the ten bucket gets the count of the other ranks.
NewDeck_uniform(d) == [ r \in Buckets |-> 4 * d ]

\* CardDeck.__init__
NewDeck(d) == [ r \in Buckets |-> IF r = 9 THEN 16 * d ELSE 4 * d ]

\* Variant of the normalisation: the label is taken as it is.
Normalize_identity(card_label) == card_label

\* normalized_label = 9 if card_label in {9, 10, 11, 12} else card_label
Normalize(card_label) == IF card_label \in {9, 10, 11, 12} THEN 9 ELSE card_label

\* CardDeck.add_card: the new counts and the return value.
add_card(c, card_label) ==
  LET n == Normalize(card_label)
  IN  IF n \in DOMAIN c
      THEN [ cards |-> [ c EXCEPT ![n] = @ + 1 ], ret |-> TRUE ]
      ELSE [ cards |-> c, ret |-> FALSE ]

\* Variant of remove_card: the decrement is not guarded at 0.
remove_card_unguarded(c, card_label) ==
  LET n == Normalize(card_label)
  IN  IF n \in DOMAIN c
      THEN [ cards |-> [ c EXCEPT ![n] = @ - 1 ], ret |-> TRUE ]
      ELSE [ cards |-> c, ret |-> FALSE ]

\* CardDeck.remove_card: the new counts and the return value.
remove_card(c, card_label) ==
  LET n == Normalize(card_label)
  IN  IF n \in DOMAIN c /\ c[n] > 0
      THEN [ cards |-> [ c EXCEPT ![n] = @ - 1 ], ret |-> TRUE ]
      ELSE [ cards |-> c, ret |-> FALSE ]

\* Variant of the wiring: the callback puts the card back.
on_confirm_callback_add(c, track) == add_card(c, track.label).cards

\* Variant of the callback: the deck is left alone.
on_confirm_callback_none(c, track) == c

\* on_confirm_callback=lambda track: deck.remove_card(track.label)
on_confirm_callback(c, track) == remove_card(c, track.label).cards

(***************************************************************************)
(* CardTracker._data_association                                           *)
(***************************************************************************)
\* The detection dicts a frame can deliver: up to MaxDetections detections
\* with distinct boxes (the dict is keyed by box), in dict order.
Detection == [ bbox : Boxes, label : Labels ]

InputsFrom(sc) ==
  UNION { { d \in [1 .. n -> [ bbox : sc, label : Labels ]] :
              \A i, j \in 1 .. n : i # j => d[i].bbox # d[j].bbox } :
          n \in 0 .. MaxDetections }

OneCardInputs == InputsFrom(OneCard)
TwoCardsInputs == InputsFrom(TwoCards)
BoxesInputs == InputsFrom(Boxes)

DetectionInputs(sc) ==
  IF sc = OneCard THEN OneCardInputs
  ELSE IF sc = TwoCards THEN TwoCardsInputs
  ELSE BoxesInputs

\* The injective maps from A into B, each as a set of pairs.
Injections(A, B) ==
  { { << a, f[a] >> : a \in A } :
      f \in { g \in [A -> B] : \A x, y \in A : x # y => g[x] # g[y] } }

\* The complete assignments of a cost matrix with rows T and columns D:
\* min(|T|, |D|) pairs <<row, column>>, no row and no column used twice.
CompleteAssignments(T, D) ==
  IF Cardinality(T) <= Cardinality(D)
  THEN Injections(T, D)
  ELSE { { << p[2], p[1] >> : p \in m } : m \in Injections(D, T) }

\* cost_matrix = 1 - iou_matrix, entry (track t, detection j)
Cost(trks, dets, t, j) == One - IoU(trks[t].bbox, dets[j].bbox)

RECURSIVE TotalCost(_, _, _)
TotalCost(trks, dets, m) ==
  IF m = {} THEN 0
  ELSE LET p == CHOOSE q \in m : TRUE
       IN  Cost(trks, dets, p[1], p[2]) + TotalCost(trks, dets, m \ {p})

\* scipy.optimize.linear_sum_assignment(cost_matrix): the complete assignments
\* of minimal total cost.  Which of several optimal ones is returned is left open.
linear_sum_assignment(trks, dets) ==
  LET all  == CompleteAssignments(DOMAIN trks, DOMAIN dets)
      best == SetMin({ TotalCost(trks, dets, m) : m \in all })
  IN  { m \in all : TotalCost(trks, dets, m) = best }

\* Variant of the threshold test: every pair of the solver is accepted.
Accepts_any(trks, dets, thr, p) == TRUE

\* if iou_matrix[r, c] >= self.iou_threshold
Accepts(trks, dets, thr, p) == IoU(trks[p[1]].bbox, dets[p[2]].bbox) >= Percent(thr)

\* The solver's pairs that _data_association accepts (its dict "assignments").
AcceptedPairs(trks, dets, thr, m) ==
  IF Len(dets) = 0 THEN {} ELSE { p \in m : Accepts(trks, dets, thr, p) }

\* Variant of unmatched_detections: matched indices are not removed.
UnmatchedDetections_all(dets, acc) == DOMAIN dets

\* The detection indices of _data_association's set "unmatched_detections".
UnmatchedDetections(dets, acc) ==
  IF Len(dets) = 0 THEN {} ELSE DOMAIN dets \ { p[2] : p \in acc }

(***************************************************************************)
(* CardTracker._update_tracks                                              *)
(***************************************************************************)
AssignedIds(acc) == { p[1] : p \in acc }
DetOf(acc, t) == (CHOOSE p \in acc : p[1] = t)[2]

\* Variants of the confirmation test: a strict comparison; no state test.
ShouldConfirm_strict(track, n) == track.state = TENTATIVE /\ track.hits > n
ShouldConfirm_anystate(track, n) == track.hits >= n

\* if track.state == TrackState.TENTATIVE and track.hits >= self.confirmation_frames
ShouldConfirm(track, n) == track.state = TENTATIVE /\ track.hits >= n

\* First loop, one assigned track: register_hit, then the confirmation test.
HitTrack(track, det, n) ==
  LET h == register_hit(track, det.bbox, det.label)
  IN  IF ShouldConfirm(h, n) THEN [ h EXCEPT !.state = CONFIRMED ] ELSE h

\* The tracks the first loop confirms (on_confirm_callback is invoked for each).
ConfirmedNow(trks, dets, acc, n) ==
  { t \in AssignedIds(acc) :
      ShouldConfirm(register_hit(trks[t], dets[DetOf(acc, t)].bbox,
                                 dets[DetOf(acc, t)].label), n) }

\* Variant of the removal test: a non-strict comparison.
ShouldDelete_nonstrict(track, r) == track.misses >= r

\* if self.tracks[track_id].misses > self.removal_frames: del self.tracks[track_id]
ShouldDelete(track, r) == track.misses > r

\* Second loop: the unassigned tracks that survive their miss.
Survivors(trks, acc, r) ==
  { t \in DOMAIN trks \ AssignedIds(acc) : ~ShouldDelete(register_miss(trks[t]), r) }

\* Variant of the id allocation: the counter is not advanced inside the loop.
SpawnId_same(nid, unmatched, j) == nid

\* Third loop: the id given to unmatched detection j (ascending index order).
SpawnId(nid, unmatched, j) == nid + Cardinality({ k \in unmatched : k < j })

\* self.tracks after _update_tracks.
UpdateTracks(trks, nid, dets, acc, n, r) ==
  LET unmatched == UnmatchedDetections(dets, acc)
      kept      == AssignedIds(acc) \cup Survivors(trks, acc, r)
      spawned   == { SpawnId(nid, unmatched, j) : j \in unmatched }
  IN  [ t \in kept \cup spawned |->
          IF t \in AssignedIds(acc) THEN HitTrack(trks[t], dets[DetOf(acc, t)], n)
          ELSE IF t \in kept THEN register_miss(trks[t])
          ELSE LET j == CHOOSE k \in unmatched : SpawnId(nid, unmatched, k) = t
               IN  NewTrack(t, dets[j].bbox, dets[j].label) ]

\* The deck after the callbacks of the first loop, in assignment order.
RECURSIVE RunCallbacks(_, _, _)
RunCallbacks(c, trks, ids) ==
  IF ids = << >> THEN c
  ELSE RunCallbacks(on_confirm_callback(c, trks[Head(ids)]), trks, Tail(ids))

\* The map CardTracker.update returns.
ReturnedMap(trks) ==
  [ t \in DOMAIN trks |->
      [ bbox |-> trks[t].bbox, label |-> trks[t].label, state |-> trks[t].state ] ]

(***************************************************************************)
(* Spec: CardTracker(confidence_threshold, iou_threshold,                  *)
(* confirmation_frames, removal_frames, on_confirm_callback) over a        *)
(* CardDeck(deck_count), then one CardTracker.update per step.  The        *)
(* callback is the lambda of main.py line 41; the constructor call of      *)
(* main.py itself names a parameter miss_frames that CardTracker.__init__  *)
(* does not have and raises TypeError, so the tracker is built with the    *)
(* parameters of CardTracker.__init__.                                     *)
(***************************************************************************)
\* No list of ranks has been scored.
ScoreIdle ==
  /\ score_cards = << >>
  /\ score_ret = 0

\* No list of boxes has been grouped.
GroupIdle ==
  /\ group_boxes = << >>
  /\ group_threshold = 10
  /\ dfs_groups = << >>
  /\ uf_groups = << >>

\* No pair of boxes has been compared: the variables hold what both routines
\* give for the empty box at the origin.
GeoIdle ==
  /\ pair_boxes = << << 0, 0, 0, 0 >>, << 0, 0, 0, 0 >> >>
  /\ overlap_ret = [ ratio |-> 0, swapped |-> 0 ]
  /\ iou_ret = [ interArea |-> 0, unionArea |-> 0, iou |-> 0, swapped |-> 0 ]

\* The order of the five calculate_*_ev calls of evaluate_hands, which is the
\* insertion order of evs.
Actions == << "stand", "hit", "double", "split", "surrender" >>

ActionSet == { Actions[i] : i \in DOMAIN Actions }

\* An EV engine call returns a float, << value >>, or raises, << >>.
EvValues == { -1, 1 }
Raises == << >>
EvOutcomes == { << v >> : v \in EvValues } \cup { Raises }

\* The hands an EV engine is asked about.
EvalPlayers == { "Player 1", "Player 2" }

\* evaluate_hands has not been called; the engine answers 1 to every call.
EvalIdle ==
  /\ eval_hands = << >>
  /\ ev_engine = [ call \in EvalPlayers \X ActionSet |-> << 1 >> ]
  /\ eval_ret = [ raised |-> FALSE, results |-> << >>, deck |-> << >> ]
  /\ ev_calls = << >>

\* AnalysisEngine(inference_interval=...), in clock ticks.
inference_interval == 2

\* queue.Queue(maxsize=1)
maxsize == 1

\* No result bundle.
NoBundle ==
  [ frame |-> 0, tracks |-> << >>, hands |-> << >>, evals |-> << >>, cycle_deck |-> << >> ]

\* An AnalysisEngine as constructed at clock 0: start() has not been called.
EngineIdle ==
  /\ running = FALSE
  /\ clock = 0
  /\ last_inference = 0 - inference_interval
  /\ frame_queue = << >>
  /\ data_queue = << >>
  /\ frames_read = 0
  /\ capture = [ pc |-> "idle", frame |-> 0, error |-> "none" ]
  /\ analysis = [ pc |-> "idle", now |-> 0, frame |-> 0, pending |-> << >>,
                  bundle |-> NoBundle, error |-> "none" ]
  /\ display = [ pc |-> "idle", bundle |-> NoBundle ]
  /\ displayed = [ frame |-> 0, evals |-> << >>, deck |-> << >>, cycle_deck |-> << >> ]
  /\ cycle_starts = << >>
  /\ stored = [ frame_queue |-> 0, data_queue |-> 0 ]

\* The specifications that follow GroupSpec have not run.
LaterIdle == GeoIdle /\ EvalIdle /\ EngineIdle

\* Nothing has been handed to the hand tracker or to the routines it is built on.
HandIdle ==
  /\ overlap_threshold = 10
  /\ hands = << >>
  /\ hand_tracks = << >>
  /\ ScoreIdle
  /\ GroupIdle

\* The runs explored: long lifecycles on one or two cards, short ones on
\* the crowded table.
Setups ==
  [ scene : {OneCard}, confirmation_frames : 1 .. MaxConfirmationFrames,
    removal_frames : 0 .. MaxRemovalFrames ]
  \cup
  [ scene : {TwoCards}, confirmation_frames : {2},
    removal_frames : 0 .. MaxRemovalFrames ]
  \cup
  [ scene : {Boxes}, confirmation_frames : {2}, removal_frames : {0} ]

Init ==
  /\ \E s \in Setups :
       /\ scene = s.scene
       /\ confirmation_frames = s.confirmation_frames
       /\ removal_frames = s.removal_frames
  /\ tracks = << >>
  /\ next_track_id = 0
  /\ confidence_threshold = 50
  /\ iou_threshold \in IouThresholds
  /\ deck_count \in 1 .. MaxDeckCount
  /\ cards = NewDeck(deck_count)
  /\ detections = << >>
  /\ solver = {}
  /\ assignments = {}
  /\ returned = << >>
  /\ callbacks = << >>
  /\ remove_calls = 0
  /\ streak = << >>
  /\ absent = << >>
  /\ clean = << >>
  /\ deck_last = [ op |-> "none", label |-> 0, ret |-> TRUE ]
  /\ deck_calls = 0
  /\ HandIdle
  /\ LaterIdle

\* The first loop of _update_tracks over the assigned tracks after lo up to
\* hi, in ascending id order: register_hit and the confirmation test.
HitsBetween(trks, dets, acc, n, lo, hi) ==
  [ t \in DOMAIN trks |->
      IF t \in AssignedIds(acc) /\ lo < t /\ t <= hi
      THEN HitTrack(trks[t], dets[DetOf(acc, t)], n) ELSE trks[t] ]

\* self.tracks after _update_tracks when the first loop has already dealt
\* with the assigned tracks in done: the rest of the first loop, the miss
\* loop and the spawning.
UpdateTracksFrom(trks, nid, dets, acc, n, r, done) ==
  LET unmatched == UnmatchedDetections(dets, acc)
      kept      == AssignedIds(acc) \cup Survivors(trks, acc, r)
      spawned   == { SpawnId(nid, unmatched, j) : j \in unmatched }
  IN  [ t \in kept \cup spawned |->
          IF t \in done THEN trks[t]
          ELSE IF t \in AssignedIds(acc) THEN HitTrack(trks[t], dets[DetOf(acc, t)], n)
          ELSE IF t \in kept THEN register_miss(trks[t])
          ELSE LET j == CHOOSE k \in unmatched : SpawnId(nid, unmatched, k) = t
               IN  NewTrack(t, dets[j].bbox, dets[j].label) ]

\* The tracks CardTracker.update(dets) confirms, in the order in which the
\* first loop of _update_tracks invokes on_confirm_callback for them.
FiredIn(dets, m) ==
  SortedSeq(ConfirmedNow(tracks, dets, AcceptedPairs(tracks, dets, iou_threshold, m),
                         confirmation_frames))

\* update returns: the map of the tracks new, and what the update with the
\* assignments acc has meant for each of them.
TrackerReturn(new, acc) ==
  /\ returned' = ReturnedMap(new)
  /\ streak' = [ t \in DOMAIN new |->
                   IF t \in AssignedIds(acc) THEN streak[t] + 1
                   ELSE IF t \in DOMAIN tracks THEN 0 ELSE 1 ]
  /\ absent' = [ t \in DOMAIN new |->
                   IF t \in DOMAIN tracks \ AssignedIds(acc) THEN absent[t] + 1 ELSE 0 ]
  /\ clean' = [ t \in DOMAIN new |->
                  IF t \in AssignedIds(acc) THEN clean[t]
                  ELSE IF t \in DOMAIN tracks THEN FALSE ELSE TRUE ]

\* CardTracker.update(dets), the solver returning the optimal assignment m:
\* what it does to the tracker itself.
TrackerState(dets, m) ==
  \E acc \in { AcceptedPairs(tracks, dets, iou_threshold, m) } :
  \E new \in { UpdateTracks(tracks, next_track_id, dets, acc,
                            confirmation_frames, removal_frames) } :
    /\ tracks' = new
    /\ next_track_id' = next_track_id + Cardinality(UnmatchedDetections(dets, acc))
    /\ detections' = dets
    /\ solver' = m
    /\ assignments' = acc
    /\ TrackerReturn(new, acc)
    /\ UNCHANGED << scene, confidence_threshold, iou_threshold, confirmation_frames,
                    removal_frames, deck_count, deck_last, deck_calls >>

\* CardTracker.update(dets), the solver returning the optimal assignment m:
\* what it does to the tracker and, through the callbacks, to the deck.
TrackerStep(dets, m) ==
  /\ TrackerState(dets, m)
  /\ cards' = RunCallbacks(cards, tracks', FiredIn(dets, m))
  /\ callbacks' = [ t \in 0 .. next_track_id' - 1 |->
                      IF \E i \in DOMAIN FiredIn(dets, m) : FiredIn(dets, m)[i] = t
                      THEN callbacks[t] + 1
                      ELSE IF t \in DOMAIN callbacks THEN callbacks[t] ELSE 0 ]
  /\ remove_calls' = remove_calls + Len(FiredIn(dets, m))

\* CardTracker.update(dets) while the ids given out stay within maxid and the
\* hit counts within confirmation_frames + MaxExtraHits.
UpdateWithin(dets, m, maxid) ==
  /\ next_track_id
       + Cardinality(UnmatchedDetections(dets, AcceptedPairs(tracks, dets, iou_threshold, m)))
       <= maxid
  /\ \A t \in AssignedIds(AcceptedPairs(tracks, dets, iou_threshold, m)) :
       tracks[t].hits < confirmation_frames + MaxExtraHits
  /\ TrackerStep(dets, m)
  /\ UNCHANGED << handVars, scoreVars, groupVars, laterVars >>

\* CardTracker.update(dets) within the bounds on track ids and hit counts.
UpdateWith(dets, m) == UpdateWithin(dets, m, MaxTrackId)

Update ==
  \E dets \in DetectionInputs(scene) :
    \E m \in linear_sum_assignment(tracks, dets) : UpdateWith(dets, m)

Next == Update

Spec == Init /\ [][Next]_vars

(***************************************************************************)
(* DeckSpec: a CardDeck(deck_count) driven by add_card / remove_card.      *)
(***************************************************************************)
DeckInit ==
  /\ scene = {}
  /\ tracks = << >>
  /\ next_track_id = 0
  /\ confidence_threshold = 50
  /\ iou_threshold = 50
  /\ confirmation_frames = 5
  /\ removal_frames = 10
  /\ deck_count \in 1 .. MaxDeckCount
  /\ cards = NewDeck(deck_count)
  /\ detections = << >>
  /\ solver = {}
  /\ assignments = {}
  /\ returned = << >>
  /\ callbacks = << >>
  /\ remove_calls = 0
  /\ streak = << >>
  /\ absent = << >>
  /\ clean = << >>
  /\ deck_last = [ op |-> "none", label |-> 0, ret |-> TRUE ]
  /\ deck_calls = 0
  /\ HandIdle
  /\ LaterIdle

AddCard ==
  \E l \in DeckLabels :
    /\ deck_calls < MaxDeckCalls
    /\ cards' = add_card(cards, l).cards
    /\ deck_last' = [ op |-> "add_card", label |-> l, ret |-> add_card(cards, l).ret ]
    /\ deck_calls' = deck_calls + 1
    /\ UNCHANGED << deck_count, trackerVars, handVars, scoreVars, groupVars, laterVars >>

RemoveCard ==
  \E l \in DeckLabels :
    /\ deck_calls < MaxDeckCalls
    /\ cards' = remove_card(cards, l).cards
    /\ deck_last' = [ op |-> "remove_card", label |-> l, ret |-> remove_card(cards, l).ret ]
    /\ deck_calls' = deck_calls + 1
    /\ UNCHANGED << deck_count, trackerVars, handVars, scoreVars, groupVars, laterVars >>

DeckNext == AddCard \/ RemoveCard

DeckSpec == DeckInit /\ [][DeckNext]_vars

(***************************************************************************)
(* HandTracker._score_hand                                                 *)
(***************************************************************************)
\* Variant of the rank test: rank 8 is counted with the tens.
IsPip_seven(card) == 1 <= card /\ card <= 7

\* elif 1 <= card <= 8
IsPip(card) == 1 <= card /\ card <= 8

\* for card in cards: total and aces after the loop.
RECURSIVE CountCards(_, _, _)
CountCards(cs, total, aces) ==
  IF cs = << >> THEN [ total |-> total, aces |-> aces ]
  ELSE IF Head(cs) = 0 THEN CountCards(Tail(cs), total + 1, aces + 1)
  ELSE IF IsPip(Head(cs)) THEN CountCards(Tail(cs), total + Head(cs) + 1, aces)
  ELSE CountCards(Tail(cs), total + 10, aces)

\* Variant of the loop test: a promotion must stay below 21.
CanPromote_below(total, aces) == aces > 0 /\ total + 10 < 21

\* while aces > 0 and total + 10 <= 21
CanPromote(total, aces) == aces > 0 /\ total + 10 <= 21

\* The while loop: total += 10, aces -= 1.
RECURSIVE Promote(_, _)
Promote(total, aces) ==
  IF CanPromote(total, aces) THEN Promote(total + 10, aces - 1) ELSE total

\* HandTracker._score_hand
score_hand(cs) ==
  LET c == CountCards(cs, 0, 0) IN Promote(c.total, c.aces)

(***************************************************************************)
(* Overlap ratios, in units of 10^-8 like the IoU.                         *)
(***************************************************************************)
\* 1 / 1e-6, the epsilon added to min_area in _compute_overlap_matrix.
OverlapEpsilonInv == 1000000

\* One entry of HandTracker._compute_overlap_matrix:
\* inter_area / (min_area + 1e-6)
overlap_entry(b1, b2) ==
  LET x_left   == Max(b1[1], b2[1])
      y_top    == Max(b1[2], b2[2])
      x_right  == Min(b1[3], b2[3])
      y_bottom == Min(b1[4], b2[4])
      inter_area == Max(0, x_right - x_left) * Max(0, y_bottom - y_top)
      min_area == Min(Area(b1), Area(b2))
  IN  Quotient(inter_area * OverlapEpsilonInv, min_area * OverlapEpsilonInv + 1)

\* Variant of compute_overlap: the intersection is divided by the area of
\* the first box.
compute_overlap_first_area(boxA, boxB) ==
  LET x_left   == Max(boxA[1], boxB[1])
      y_top    == Max(boxA[2], boxB[2])
      x_right  == Min(boxA[3], boxB[3])
      y_bottom == Min(boxA[4], boxB[4])
  IN  IF x_right < x_left \/ y_bottom < y_top THEN 0
      ELSE IF Area(boxA) = 0 THEN 0
      ELSE Quotient((x_right - x_left) * (y_bottom - y_top), Area(boxA))

\* detection_utils.compute_overlap
compute_overlap(boxA, boxB) ==
  LET x_left   == Max(boxA[1], boxB[1])
      y_top    == Max(boxA[2], boxB[2])
      x_right  == Min(boxA[3], boxB[3])
      y_bottom == Min(boxA[4], boxB[4])
      intersection_area == (x_right - x_left) * (y_bottom - y_top)
      min_area == Min(Area(boxA), Area(boxB))
  IN  IF x_right < x_left \/ y_bottom < y_top THEN 0
      ELSE IF min_area = 0 THEN 0
      ELSE Quotient(intersection_area, min_area)

\* Both ratios over the boxes of the model, tabulated once.
overlap_table == [ p \in HandBoxes \X HandBoxes |-> overlap_entry(p[1], p[2]) ] @@ << >>
compute_overlap_table ==
  [ p \in HandBoxes \X HandBoxes |-> compute_overlap(p[1], p[2]) ] @@ << >>

\* HandTracker._compute_overlap_matrix(boxes); indices run from 1.
compute_overlap_matrix(boxes) ==
  [ p \in (1 .. Len(boxes)) \X (1 .. Len(boxes)) |->
      overlap_table[<< boxes[p[1]], boxes[p[2]] >>] ]

\* for i in range(n): for j in range(i + 1, n): the pairs in loop order.
RECURSIVE PairsFrom(_, _, _)
PairsFrom(i, j, n) ==
  IF i > n THEN << >>
  ELSE IF j > n THEN PairsFrom(i + 1, i + 2, n)
  ELSE << << i, j >> >> \o PairsFrom(i, j + 1, n)

Pairs(n) == PairsFrom(1, 2, n)

(***************************************************************************)
(* HandTracker._group_cards: union-find over the adjacency matrix.         *)
(***************************************************************************)
\* adj = overlap_matrix >= self.overlap_threshold; np.fill_diagonal(adj, False)
Adjacent(overlap_matrix, thr, i, j) ==
  i # j /\ overlap_matrix[<< i, j >>] >= Percent(thr)

\* _find(x), with its path compression: the new parent list and the root.
RECURSIVE find(_, _)
find(parent, x) ==
  IF parent[x] = x THEN [ parent |-> parent, root |-> x ]
  ELSE LET compressed == [ parent EXCEPT ![x] = parent[parent[x]] ]
       IN  find(compressed, compressed[x])

\* _union(x, y): the new parent list.
union(parent, x, y) ==
  LET fx == find(parent, x)
      fy == find(fx.parent, y)
  IN  IF fx.root # fy.root
      THEN [ fy.parent EXCEPT ![fy.root] = fx.root ]
      ELSE fy.parent

\* The loop over all pairs: union the adjacent ones.
RECURSIVE UnionLoop(_, _, _, _)
UnionLoop(parent, overlap_matrix, thr, pairs) ==
  IF pairs = << >> THEN parent
  ELSE LET i == Head(pairs)[1]
           j == Head(pairs)[2]
       IN  UnionLoop(IF Adjacent(overlap_matrix, thr, i, j)
                     THEN union(parent, i, j) ELSE parent,
                     overlap_matrix, thr, Tail(pairs))

\* The loop filling groups_dict: roots in insertion order, and their members.
RECURSIVE GroupLoop(_, _, _, _, _)
GroupLoop(parent, i, n, roots, members) ==
  IF i > n THEN [ k \in 1 .. Len(roots) |-> members[roots[k]] ]
  ELSE LET f == find(parent, i)
       IN  IF f.root \in DOMAIN members
           THEN GroupLoop(f.parent, i + 1, n, roots,
                          [ members EXCEPT ![f.root] = Append(@, i) ])
           ELSE GroupLoop(f.parent, i + 1, n, Append(roots, f.root),
                          members @@ (f.root :> << i >>))

\* HandTracker._group_cards(boxes) with self.overlap_threshold = thr.
HandTracker_group_cards(boxes, thr) ==
  LET n == Len(boxes)
  IN  IF n = 0 THEN << >>
      ELSE GroupLoop(UnionLoop([ i \in 1 .. n |-> i ], compute_overlap_matrix(boxes),
                               thr, Pairs(n)),
                     1, n, << >>, << >>)

(***************************************************************************)
(* detection_utils.group_cards: depth-first search over adjacency lists.   *)
(***************************************************************************)
\* The loop adding an edge for every pair with sufficient overlap.
RECURSIVE GraphLoop(_, _, _, _)
GraphLoop(graph, boxes, thr, pairs) ==
  IF pairs = << >> THEN graph
  ELSE LET i == Head(pairs)[1]
           j == Head(pairs)[2]
       IN  GraphLoop(IF compute_overlap_table[<< boxes[i], boxes[j] >>] >= Percent(thr)
                     THEN [ graph EXCEPT ![i] = Append(@, j), ![j] = Append(@, i) ]
                     ELSE graph,
                     boxes, thr, Tail(pairs))

\* while stack: pop a node; an unvisited one joins the group and pushes its
\* neighbours.
RECURSIVE DfsWhile(_, _, _, _)
DfsWhile(graph, visited, stack, group) ==
  IF stack = << >> THEN [ visited |-> visited, group |-> group ]
  ELSE LET node == stack[Len(stack)]
           rest == SubSeq(stack, 1, Len(stack) - 1)
       IN  IF ~visited[node]
           THEN DfsWhile(graph, [ visited EXCEPT ![node] = TRUE ],
                         rest \o graph[node], Append(group, node))
           ELSE DfsWhile(graph, visited, rest, group)

\* for i in range(n): start a search from every node not visited yet.
RECURSIVE DfsFor(_, _, _, _, _)
DfsFor(graph, visited, i, n, groups) ==
  IF i > n THEN groups
  ELSE IF ~visited[i]
       THEN LET d == DfsWhile(graph, visited, << i >>, << >>)
            IN  DfsFor(graph, d.visited, i + 1, n, Append(groups, d.group))
       ELSE DfsFor(graph, visited, i + 1, n, groups)

\* detection_utils.group_cards(boxes, overlap_threshold)
group_cards(boxes, thr) ==
  LET n == Len(boxes)
  IN  DfsFor(GraphLoop([ i \in 1 .. n |-> << >> ], boxes, thr, Pairs(n)),
             [ i \in 1 .. n |-> FALSE ], 1, n, << >>)

(***************************************************************************)
(* HandTracker.update                                                      *)
(***************************************************************************)
\* Variant of the filter: every track is kept.
IsStable_any(info) == TRUE

\* info.get("state", 1) == 1
IsStable(info) ==
  (IF "state" \in DOMAIN info THEN info.state ELSE 1) = 1

\* Variant of the player test: a pair of cards is no hand.
IsPlayerGroup_three(group) == Len(group) > 2

\* len(group) > 1
IsPlayerGroup(group) == Len(group) > 1

\* len(group) == 1
IsSingleGroup(group) == Len(group) = 1

\* Variant of the dealer's indices: only the first single-card group.
Flatten_first(groups) == IF groups = << >> THEN << >> ELSE Head(groups)

\* [idx for group in single_groups for idx in group]
RECURSIVE Flatten(_)
Flatten(groups) ==
  IF groups = << >> THEN << >> ELSE Head(groups) \o Flatten(Tail(groups))

\* key=lambda group: min(boxes[idx][0] for idx in group) if group else 0
SortKey(boxes, group) ==
  IF group = << >> THEN 0
  ELSE SetMin({ boxes[group[k]][1] : k \in 1 .. Len(group) })

\* list.sort is stable: a group goes behind the groups whose key is <= its own.
RECURSIVE InsertGroup(_, _, _)
InsertGroup(sorted, group, boxes) ==
  IF sorted = << >> THEN << group >>
  ELSE IF SortKey(boxes, Head(sorted)) <= SortKey(boxes, group)
       THEN << Head(sorted) >> \o InsertGroup(Tail(sorted), group, boxes)
       ELSE << group >> \o sorted

RECURSIVE SortInto(_, _, _)
SortInto(sorted, groups, boxes) ==
  IF groups = << >> THEN sorted
  ELSE SortInto(InsertGroup(sorted, Head(groups), boxes), Tail(groups), boxes)

\* Variant of the sort: the groups stay in grouping order.
sort_player_groups_unsorted(groups, boxes) == groups

\* player_groups.sort(key=...)
sort_player_groups(groups, boxes) == SortInto(<< >>, groups, boxes)

\* f"Player {i}"
PlayerKey(i) == "Player " \o ToString(i)

\* One entry of hands_info: the cards, the score and the boxes of a group.
HandInfo(group, boxes, labels) ==
  [ cards |-> [ k \in 1 .. Len(group) |-> labels[group[k]] ],
    score |-> score_hand([ k \in 1 .. Len(group) |-> labels[group[k]] ]),
    boxes |-> [ k \in 1 .. Len(group) |-> boxes[group[k]] ] ]

\* HandTracker.update(tracks): hands_info.  items are the values of the dict
\* in its order.
HandTracker_update(items, thr) ==
  LET stable_tracks  == SelectSeq(items, IsStable)
      boxes          == [ i \in 1 .. Len(stable_tracks) |-> stable_tracks[i].bbox ]
      labels         == [ i \in 1 .. Len(stable_tracks) |-> stable_tracks[i].label ]
      groups         == HandTracker_group_cards(boxes, thr)
      dealer_indices == Flatten(SelectSeq(groups, IsSingleGroup))
      player_groups  == sort_player_groups(SelectSeq(groups, IsPlayerGroup), boxes)
      keys           == (IF dealer_indices # << >> THEN {"Dealer"} ELSE {})
                        \cup { PlayerKey(i) : i \in 1 .. Len(player_groups) }
  IN  [ key \in keys |->
          IF key = "Dealer" THEN HandInfo(dealer_indices, boxes, labels)
          ELSE HandInfo(player_groups[CHOOSE i \in 1 .. Len(player_groups) :
                                        PlayerKey(i) = key],
                        boxes, labels) ]

(***************************************************************************)
(* HandSpec: a HandTracker(overlap_threshold), one update per step.        *)
(***************************************************************************)
\* The tracker and the deck as constructed, never called.
TrackerIdle ==
  /\ scene = {}
  /\ tracks = << >>
  /\ next_track_id = 0
  /\ confidence_threshold = 50
  /\ iou_threshold = 50
  /\ confirmation_frames = 5
  /\ removal_frames = 10
  /\ detections = << >>
  /\ solver = {}
  /\ assignments = {}
  /\ returned = << >>
  /\ callbacks = << >>
  /\ remove_calls = 0
  /\ streak = << >>
  /\ absent = << >>
  /\ clean = << >>

DeckIdle ==
  /\ deck_count = 1
  /\ cards = NewDeck(1)
  /\ deck_last = [ op |-> "none", label |-> 0, ret |-> TRUE ]
  /\ deck_calls = 0

\* The values of a track map handed to HandTracker.update, in dict order:
\* tracks on distinct boxes, Tentative or Confirmed.  update reads neither
\* self.hands nor the map of the call before, so a call may follow any call:
\* after a call with the map items the next call takes any map, and
\* MaxHandTracks bounds the tracks of the two maps together (every map of up
\* to MaxHandTracks tracks is the argument of the first call).
TrackMapsOf(n) ==
  { m \in [ 1 .. n -> [ bbox : HandBoxes, label : HandLabels,
                        state : { TENTATIVE, CONFIRMED } ] ] :
      \A i, j \in 1 .. n : i # j => m[i].bbox # m[j].bbox }

NextTrackMaps(items) ==
  UNION { TrackMapsOf(n) : n \in 0 .. MaxHandTracks - Len(items) }

HandInit ==
  /\ TrackerIdle
  /\ DeckIdle
  /\ overlap_threshold \in OverlapThresholds
  /\ hands = << >>
  /\ hand_tracks = << >>
  /\ ScoreIdle
  /\ GroupIdle
  /\ LaterIdle

\* HandTracker.update(tracks)
HandUpdate ==
  \E items \in NextTrackMaps(hand_tracks) :
    /\ hand_tracks' = items
    /\ hands' = HandTracker_update(items, overlap_threshold)
    /\ UNCHANGED << overlap_threshold, trackerVars, deckVars, scoreVars, groupVars,
                    laterVars >>

HandNext == HandUpdate

HandSpec == HandInit /\ [][HandNext]_vars

(***************************************************************************)
(* ScoreSpec: HandTracker._score_hand on lists of ranks.                   *)
(***************************************************************************)
\* The lists scored: the hand scored last with one more card, or a new hand
\* of one card.
NextCards(cs) ==
  { << r >> : r \in Ranks }
  \cup { Append(cs, r) : r \in IF Len(cs) < MaxScoreCards THEN Ranks ELSE {} }

ScoreInit ==
  /\ TrackerIdle
  /\ DeckIdle
  /\ HandIdle
  /\ LaterIdle

ScoreHand ==
  \E cs \in NextCards(score_cards) :
    /\ score_cards' = cs
    /\ score_ret' = score_hand(cs)
    /\ UNCHANGED << trackerVars, deckVars, handVars, groupVars, laterVars >>

ScoreNext == ScoreHand

ScoreSpec == ScoreInit /\ [][ScoreNext]_vars

(***************************************************************************)
(* GroupSpec: detection_utils.group_cards and HandTracker._group_cards on  *)
(* the same list of boxes with the same threshold.                         *)
(***************************************************************************)
\* The lists grouped: the list grouped last with one more box, or without
\* its last box.
NextBoxes(boxes) ==
  { Append(boxes, b) :
      b \in IF Len(boxes) < MaxGroupBoxes
            THEN HandBoxes \ { boxes[k] : k \in 1 .. Len(boxes) } ELSE {} }
  \cup { SubSeq(boxes, 1, Len(boxes) - 1) }

GroupInit ==
  /\ TrackerIdle
  /\ DeckIdle
  /\ HandIdle
  /\ LaterIdle

GroupCards ==
  \E boxes \in NextBoxes(group_boxes) : \E thr \in OverlapThresholds :
    /\ group_boxes' = boxes
    /\ group_threshold' = thr
    /\ dfs_groups' = group_cards(boxes, thr)
    /\ uf_groups' = HandTracker_group_cards(boxes, thr)
    /\ UNCHANGED << trackerVars, deckVars, handVars, scoreVars, laterVars >>

GroupNext == GroupCards

GroupSpec == GroupInit /\ [][GroupNext]_vars

(***************************************************************************)
(* OverlapSpec and IouSpec: compute_overlap and _compute_iou on pairs of   *)
(* boxes.  Each call takes the second box of the call before and one more. *)
(***************************************************************************)
NextPairs(pair) == { << pair[2], c >> : c \in GeoBoxes }

\* boxArea1 + boxArea2 - interArea
UnionArea(b1, b2) == Area(b1) + Area(b2) - InterArea(b1, b2)

GeoInit ==
  /\ TrackerIdle
  /\ DeckIdle
  /\ HandIdle
  /\ LaterIdle

\* compute_overlap(boxA, boxB) and compute_overlap(boxB, boxA)
ComputeOverlap ==
  \E pair \in NextPairs(pair_boxes) :
    /\ pair_boxes' = pair
    /\ overlap_ret' = [ ratio |-> compute_overlap(pair[1], pair[2]),
                        swapped |-> compute_overlap(pair[2], pair[1]) ]
    /\ UNCHANGED << trackerVars, deckVars, handVars, scoreVars, groupVars, iou_ret,
                    evalVars, engineVars >>

OverlapNext == ComputeOverlap

OverlapSpec == GeoInit /\ [][OverlapNext]_vars

\* The entries of _compute_iou for (b1, b2) and for (b2, b1).
ComputeIou ==
  \E pair \in NextPairs(pair_boxes) :
    /\ pair_boxes' = pair
    /\ iou_ret' = [ interArea |-> InterArea(pair[1], pair[2]),
                    unionArea |-> UnionArea(pair[1], pair[2]),
                    iou |-> compute_iou(pair[1], pair[2]),
                    swapped |-> compute_iou(pair[2], pair[1]) ]
    /\ UNCHANGED << trackerVars, deckVars, handVars, scoreVars, groupVars, overlap_ret,
                    evalVars, engineVars >>

IouNext == ComputeIou

IouSpec == GeoInit /\ [][IouNext]_vars

(***************************************************************************)
(* HandEvaluator.evaluate_hands                                            *)
(***************************************************************************)
\* info.get("cards", [])
CardsOf(info) == IF "cards" \in DOMAIN info THEN info.cards ELSE << >>

\* hands_info.get("Dealer", {}).get("cards", [])
DealerCards(hands_info) ==
  IF "Dealer" \in DOMAIN hands_info THEN CardsOf(hands_info["Dealer"]) ELSE << >>

\* The keys of hands_info in dict order: HandTracker.update inserts "Dealer"
\* first and then "Player 1", "Player 2", ...
HandIds(hands_info) ==
  SelectSeq(<< "Dealer" >> \o [ i \in 1 .. Cardinality(DOMAIN hands_info) |-> PlayerKey(i) ],
            LAMBDA key : key \in DOMAIN hands_info)

\* The keys of evs in insertion order.
EvKeys(evs) == SelectSeq(Actions, LAMBDA a : a \in DOMAIN evs)

\* Variant of max(evs, key=evs.get): the last key of the largest value.
best_action_last(evs) ==
  LET keys == EvKeys(evs)
      i    == CHOOSE i \in 1 .. Len(keys) :
                /\ \A j \in 1 .. Len(keys) : evs[keys[j]] <= evs[keys[i]]
                /\ \A j \in i + 1 .. Len(keys) : evs[keys[j]] < evs[keys[i]]
  IN  keys[i]

\* max(evs, key=evs.get): the first key, in insertion order, of the largest
\* value.
best_action(evs) ==
  LET keys == EvKeys(evs)
      i    == CHOOSE i \in 1 .. Len(keys) :
                /\ \A j \in 1 .. Len(keys) : evs[keys[j]] <= evs[keys[i]]
                /\ \A j \in 1 .. i - 1 : evs[keys[j]] < evs[keys[i]]
  IN  keys[i]

\* The five EV calls for one hand, from the i-th on.  A call that raises ends
\* the loop: nothing in evaluate_hands catches it.
RECURSIVE EvLoop(_, _, _, _, _)
EvLoop(engine, hand_id, i, evs, calls) ==
  IF i > Len(Actions) THEN [ raised |-> FALSE, evs |-> evs, calls |-> calls ]
  ELSE LET call == << hand_id, Actions[i] >>
       IN  IF engine[call] = Raises
           THEN [ raised |-> TRUE, evs |-> evs, calls |-> Append(calls, call) ]
           ELSE EvLoop(engine, hand_id, i + 1, (Actions[i] :> engine[call][1]) @@ evs,
                       Append(calls, call))

\* The loop over hands_info.items(), from the k-th key on.
RECURSIVE HandsLoop(_, _, _, _, _)
HandsLoop(engine, ids, k, results, calls) ==
  IF k > Len(ids) THEN [ raised |-> FALSE, results |-> results, calls |-> calls ]
  ELSE IF ids[k] = "Dealer" THEN HandsLoop(engine, ids, k + 1, results, calls)
  ELSE LET hand == EvLoop(engine, ids[k], 1, << >>, calls)
       IN  IF hand.raised
           THEN [ raised |-> TRUE, results |-> << >>, calls |-> hand.calls ]
           ELSE HandsLoop(engine, ids, k + 1,
                          (ids[k] :> [ evs |-> hand.evs,
                                       best_action |-> best_action(hand.evs) ])
                            @@ results,
                          hand.calls)

\* HandEvaluator.evaluate_hands(hands_info).  raised: an exception left the
\* method, and results is not returned.
evaluate_hands(hands_info, engine) ==
  IF DealerCards(hands_info) = << >>
  THEN [ raised |-> FALSE, results |-> << >>, calls |-> << >> ]
  ELSE HandsLoop(engine, HandIds(hands_info), 1, << >>, << >>)

(***************************************************************************)
(* EvalSpec: a HandEvaluator over an EV engine, one evaluate_hands call    *)
(* per step.  From one call to the next either the hands or one answer of  *)
(* the engine changes.                                                     *)
(***************************************************************************)
\* The hands_info dicts handed to evaluate_hands.
EvalHands ==
  LET dealer == [ cards |-> << 9 >>, score |-> 10, boxes |-> << << 5, 0, 9, 1 >> >> ]
      nobody == [ cards |-> << >>, score |-> 0, boxes |-> << >> ]
      first  == [ cards |-> << 7, 7 >>, score |-> 16,
                  boxes |-> << << 0, 0, 4, 1 >>, << 2, 0, 6, 1 >> >> ]
      second == [ cards |-> << 0, 9 >>, score |-> 21,
                  boxes |-> << << 0, 5, 4, 6 >>, << 3, 5, 7, 6 >> >> ]
  IN  { << >>,
        "Player 1" :> first,
        ("Dealer" :> nobody) @@ ("Player 1" :> first),
        ("Dealer" :> [ score |-> 0 ]) @@ ("Player 1" :> first),
        "Dealer" :> dealer,
        ("Dealer" :> dealer) @@ ("Player 1" :> first),
        ("Dealer" :> dealer) @@ ("Player 1" :> first) @@ ("Player 2" :> second) }

Failures(engine) == { call \in DOMAIN engine : engine[call] = Raises }

NextEngines(engine) ==
  { e \in { [ engine EXCEPT ![call] = out ] : call \in DOMAIN engine, out \in EvOutcomes } :
      Cardinality(Failures(e)) <= MaxEvFailures }

NextEvalInputs ==
  { << h, ev_engine >> : h \in EvalHands } \cup { << eval_hands, e >> : e \in NextEngines(ev_engine) }

EvalInit ==
  /\ TrackerIdle
  /\ DeckIdle
  /\ HandIdle
  /\ LaterIdle

EvaluateHands ==
  \E input \in NextEvalInputs :
    \E ret \in { evaluate_hands(input[1], input[2]) } :
      /\ eval_hands' = input[1]
      /\ ev_engine' = input[2]
      /\ eval_ret' = [ raised |-> ret.raised, results |-> ret.results, deck |-> cards ]
      /\ ev_calls' = ret.calls
      /\ UNCHANGED << trackerVars, deckVars, handVars, scoreVars, groupVars, geoVars,
                      engineVars >>

EvalNext == EvaluateHands

EvalSpec == EvalInit /\ [][EvalNext]_vars

(***************************************************************************)
(* ConfSpec: the same tracker fed detection dicts that carry the           *)
(* "confidence" entry CardDetector.apply_nms gives every detection.        *)
(***************************************************************************)
\* The confidences a detection can carry (percent): below, at and above the
\* tracker's confidence_threshold of 50.
Confidences == { 30, 50, 70 }

\* The detection dicts of a frame showing up to two cards apart.
ConfInputs ==
  UNION { { d \in [1 .. n -> [ bbox : TwoCards, label : { 0 }, confidence : Confidences ]] :
              \A i, j \in 1 .. n : i # j => d[i].bbox # d[j].bbox } :
          n \in 0 .. MaxDetections }

ConfInit ==
  /\ scene = TwoCards
  /\ confirmation_frames = 2
  /\ removal_frames = 0
  /\ tracks = << >>
  /\ next_track_id = 0
  /\ confidence_threshold = 50
  /\ iou_threshold = 50
  /\ DeckIdle
  /\ detections = << >>
  /\ solver = {}
  /\ assignments = {}
  /\ returned = << >>
  /\ callbacks = << >>
  /\ remove_calls = 0
  /\ streak = << >>
  /\ absent = << >>
  /\ clean = << >>
  /\ HandIdle
  /\ LaterIdle

ConfUpdate ==
  \E dets \in ConfInputs :
    \E m \in linear_sum_assignment(tracks, dets) : UpdateWith(dets, m)

ConfNext == ConfUpdate

ConfSpec == ConfInit /\ [][ConfNext]_vars

(***************************************************************************)
(* AssocSpec: the tracker on the crowded table, far enough for two tracks *)
(* to meet two detections.                                                 *)
(***************************************************************************)
AssocInit ==
  /\ scene = Boxes
  /\ confirmation_frames = 2
  /\ removal_frames = 0
  /\ tracks = << >>
  /\ next_track_id = 0
  /\ confidence_threshold = 50
  /\ iou_threshold = 50
  /\ DeckIdle
  /\ detections = << >>
  /\ solver = {}
  /\ assignments = {}
  /\ returned = << >>
  /\ callbacks = << >>
  /\ remove_calls = 0
  /\ streak = << >>
  /\ absent = << >>
  /\ clean = << >>
  /\ HandIdle
  /\ LaterIdle

AssocUpdate ==
  \E dets \in BoxesInputs :
    \E m \in linear_sum_assignment(tracks, dets) : UpdateWithin(dets, m, MaxAssocTrackId)

AssocNext == AssocUpdate

AssocSpec == AssocInit /\ [][AssocNext]_vars

(***************************************************************************)
(* EngineSpec: AnalysisEngine.start() and its three threads.  The video    *)
(* shows the same three cards in each of its MaxFrames frames: two that    *)
(* overlap and one apart.  A step is a group of statements of one thread   *)
(* with at most one access to a queue, to self.running or to the deck: the *)
(* threads share nothing else.                                             *)
(***************************************************************************)
\* card_detector.detect(frame), for every frame of the video.
EngineDetections ==
  << [ bbox |-> << 0, 0, 4, 1 >>, label |-> 7 ],
     [ bbox |-> << 2, 0, 6, 1 >>, label |-> 7 ],
     [ bbox |-> << 0, 5, 4, 6 >>, label |-> 9 ] >>

\* What the EV engine does during one evaluate_hands call: every call returns
\* 1, or calculate_split_ev raises for the first player hand.
EngineAnswers ==
  { [ call \in EvalPlayers \X ActionSet |-> << 1 >> ],
    [ call \in EvalPlayers \X ActionSet |->
        IF call = << "Player 1", "split" >> THEN Raises ELSE << 1 >> ] }

\* The values of the dict CardTracker.update returns, in dict order.
ItemsOf(ret) ==
  LET ids == SortedSeq(DOMAIN ret) IN [ i \in 1 .. Len(ids) |-> ret[ids[i]] ]

\* Variant of the rate test: an iteration never waits.
GateOpen_always(now, last) == TRUE

\* not (now - self.last_inference < self.inference_interval)
GateOpen(now, last) == ~(now - last < inference_interval)

\* AnalysisEngine(...) over a CardTracker(confidence_threshold, iou_threshold,
\* confirmation_frames=2) with the removal_frames of its constructor, a
\* CardDeck, a HandTracker() with the overlap_threshold of its constructor and
\* a HandEvaluator; start() has not been called.
EngineInit ==
  /\ scene = { EngineDetections[i].bbox : i \in DOMAIN EngineDetections }
  /\ tracks = << >>
  /\ next_track_id = 0
  /\ confidence_threshold = 50
  /\ iou_threshold = 50
  /\ confirmation_frames = 2
  /\ removal_frames = 10
  /\ detections = << >>
  /\ solver = {}
  /\ assignments = {}
  /\ returned = << >>
  /\ callbacks = << >>
  /\ remove_calls = 0
  /\ streak = << >>
  /\ absent = << >>
  /\ clean = << >>
  /\ DeckIdle
  /\ overlap_threshold = 10
  /\ hands = << >>
  /\ hand_tracks = << >>
  /\ ScoreIdle
  /\ GroupIdle
  /\ LaterIdle

\* Variables no thread of the engine touches.
restVars == << scoreVars, groupVars, geoVars >>

\* The components only the analysis cycle touches.
stageVars == << trackerVars, deckVars, handVars, evalVars >>

\* AnalysisEngine.start: self.running = True and the three threads start.
EngineStart ==
  /\ capture.pc = "idle"
  /\ running' = TRUE
  /\ capture' = [ capture EXCEPT !.pc = "loop" ]
  /\ analysis' = [ analysis EXCEPT !.pc = "loop" ]
  /\ display' = [ display EXCEPT !.pc = "loop" ]
  /\ UNCHANGED << clock, last_inference, frame_queue, data_queue, frames_read, displayed,
                  cycle_starts, stored, stageVars, restVars >>

\* Time passes.
Tick ==
  /\ clock < MaxClock
  /\ clock' = clock + 1
  /\ UNCHANGED << running, last_inference, frame_queue, data_queue, frames_read, capture,
                  analysis, display, displayed, cycle_starts, stored, stageVars, restVars >>

\* _capture_loop: "while self.running", read_frame, and "self.running = False"
\* on None.
CaptureLoop ==
  /\ capture.pc = "loop"
  /\ IF ~running
     THEN /\ capture' = [ capture EXCEPT !.pc = "done" ]
          /\ UNCHANGED << running, frames_read >>
     ELSE IF frames_read = MaxFrames
     THEN /\ running' = FALSE
          /\ capture' = [ capture EXCEPT !.pc = "done" ]
          /\ UNCHANGED frames_read
     ELSE /\ frames_read' = frames_read + 1
          /\ capture' = [ capture EXCEPT !.pc = "put", !.frame = frames_read + 1 ]
          /\ UNCHANGED running
  /\ UNCHANGED << clock, last_inference, frame_queue, data_queue, analysis, display,
                  displayed, cycle_starts, stored, stageVars, restVars >>

\* _enqueue_safe(frame_queue, frame): q.put(item, timeout=0.01) stores the
\* item, or the queue is full until the timeout and queue.Full is raised.
CapturePut ==
  /\ capture.pc = "put"
  /\ IF Len(frame_queue) < maxsize
     THEN /\ frame_queue' = Append(frame_queue, capture.frame)
          /\ stored' = [ stored EXCEPT !.frame_queue = capture.frame ]
          /\ capture' = [ capture EXCEPT !.pc = "loop", !.frame = 0 ]
     ELSE /\ capture' = [ capture EXCEPT !.pc = "full" ]
          /\ UNCHANGED << frame_queue, stored >>
  /\ UNCHANGED << running, clock, last_inference, data_queue, frames_read, analysis,
                  display, displayed, cycle_starts, stageVars, restVars >>

\* except queue.Full: q.get_nowait() discards the stored item, or raises
\* queue.Empty when the consumer has taken it meanwhile; nothing catches that.
CaptureFull ==
  /\ capture.pc = "full"
  /\ IF frame_queue # << >>
     THEN /\ frame_queue' = Tail(frame_queue)
          /\ capture' = [ capture EXCEPT !.pc = "reput" ]
     ELSE /\ capture' = [ capture EXCEPT !.pc = "crashed", !.error = "queue.Empty" ]
          /\ UNCHANGED frame_queue
  /\ UNCHANGED << running, clock, last_inference, data_queue, frames_read, analysis,
                  display, displayed, cycle_starts, stored, stageVars, restVars >>

\* q.put(item) after the discard: blocks while the queue is full.
CaptureReput ==
  /\ capture.pc = "reput"
  /\ Len(frame_queue) < maxsize
  /\ frame_queue' = Append(frame_queue, capture.frame)
  /\ stored' = [ stored EXCEPT !.frame_queue = capture.frame ]
  /\ capture' = [ capture EXCEPT !.pc = "loop", !.frame = 0 ]
  /\ UNCHANGED << running, clock, last_inference, data_queue, frames_read, analysis,
                  display, displayed, cycle_starts, stageVars, restVars >>

\* _analysis_loop: "while self.running", now = time.monotonic(), and the rate
\* test, which sends the iteration back to the loop head.
AnalysisLoop ==
  /\ analysis.pc = "loop"
  /\ IF ~running THEN analysis' = [ analysis EXCEPT !.pc = "done" ]
     ELSE IF GateOpen(clock, last_inference)
     THEN analysis' = [ analysis EXCEPT !.pc = "get", !.now = clock ]
     ELSE analysis' = analysis
  /\ UNCHANGED << running, clock, last_inference, frame_queue, data_queue, frames_read,
                  capture, display, displayed, cycle_starts, stored, stageVars, restVars >>

\* frame = self._dequeue_safe(self.frame_queue): the stored frame, or None
\* after the timeout and back to the loop head.
AnalysisGet ==
  /\ analysis.pc = "get"
  /\ IF frame_queue # << >>
     THEN /\ frame_queue' = Tail(frame_queue)
          /\ analysis' = [ analysis EXCEPT !.pc = "track", !.frame = Head(frame_queue) ]
          /\ cycle_starts' = Append(cycle_starts, analysis.now)
     ELSE /\ analysis' = [ analysis EXCEPT !.pc = "loop", !.now = 0 ]
          /\ UNCHANGED << frame_queue, cycle_starts >>
  /\ UNCHANGED << running, clock, last_inference, data_queue, frames_read, capture,
                  display, displayed, stored, stageVars, restVars >>

\* detections = detect(frame); tracks = card_tracker.update(detections) up to
\* the first confirmation callback: the association, and the first loop of
\* _update_tracks up to the track that is confirmed first.  The callback
\* writes the deck, which the display thread reads, and is a step of its own.
\* An update that confirms no track runs to its end.
AnalysisTrack ==
  /\ analysis.pc = "track"
  /\ \E m \in linear_sum_assignment(tracks, EngineDetections) :
       IF FiredIn(EngineDetections, m) = << >>
       THEN /\ TrackerState(EngineDetections, m)
            /\ callbacks' = [ t \in 0 .. next_track_id' - 1 |->
                                IF t \in DOMAIN callbacks THEN callbacks[t] ELSE 0 ]
            /\ analysis' = [ analysis EXCEPT !.pc = "hands" ]
       ELSE /\ tracks' = HitsBetween(tracks, EngineDetections,
                                     AcceptedPairs(tracks, EngineDetections, iou_threshold, m),
                                     confirmation_frames, 0 - 1,
                                     Head(FiredIn(EngineDetections, m)))
            /\ detections' = EngineDetections
            /\ solver' = m
            /\ assignments' = AcceptedPairs(tracks, EngineDetections, iou_threshold, m)
            /\ analysis' = [ analysis EXCEPT !.pc = "callback",
                                             !.pending = FiredIn(EngineDetections, m) ]
            /\ UNCHANGED << scene, next_track_id, confidence_threshold, iou_threshold,
                            confirmation_frames, removal_frames, returned, callbacks,
                            streak, absent, clean, deck_count, deck_last, deck_calls >>
  /\ UNCHANGED << cards, remove_calls, handVars, evalVars, running, clock,
                  last_inference, frame_queue, data_queue, frames_read, capture, display,
                  displayed, cycle_starts, stored, restVars >>

\* self.on_confirm_callback(track) inside the first loop: the lambda calls
\* deck.remove_card(track.label).  The update then goes on to the next
\* callback or, after the last one, through the rest of the first loop, the
\* miss loop and the spawning to its return.
AnalysisCallback ==
  /\ analysis.pc = "callback"
  /\ cards' = on_confirm_callback(cards, tracks[Head(analysis.pending)])
  /\ remove_calls' = remove_calls + 1
  /\ IF Tail(analysis.pending) # << >>
     THEN /\ tracks' = HitsBetween(tracks, detections, assignments, confirmation_frames,
                                   Head(analysis.pending), Head(Tail(analysis.pending)))
          /\ callbacks' = [ callbacks EXCEPT ![Head(analysis.pending)] = @ + 1 ]
          /\ analysis' = [ analysis EXCEPT !.pending = Tail(analysis.pending) ]
          /\ UNCHANGED << next_track_id, returned, streak, absent, clean >>
     ELSE /\ \E new \in { UpdateTracksFrom(tracks, next_track_id, detections, assignments,
                                            confirmation_frames, removal_frames,
                                            { t \in AssignedIds(assignments) :
                                                t <= Head(analysis.pending) }) } :
               /\ tracks' = new
               /\ next_track_id' = next_track_id
                                     + Cardinality(UnmatchedDetections(detections, assignments))
               /\ TrackerReturn(new, assignments)
          /\ callbacks' = [ t \in 0 .. next_track_id' - 1 |->
                              IF t = Head(analysis.pending) THEN callbacks[t] + 1
                              ELSE IF t \in DOMAIN callbacks THEN callbacks[t] ELSE 0 ]
          /\ analysis' = [ analysis EXCEPT !.pc = "hands", !.pending = << >> ]
  /\ UNCHANGED << scene, confidence_threshold, iou_threshold, confirmation_frames,
                  removal_frames, detections, solver, assignments, deck_count, deck_last,
                  deck_calls, handVars, evalVars, running, clock, last_inference,
                  frame_queue, data_queue, frames_read, capture, display, displayed,
                  cycle_starts, stored, restVars >>

\* update returns the map of the tracks; hands = hand_tracker.update(tracks).
AnalysisHands ==
  /\ analysis.pc = "hands"
  /\ hand_tracks' = ItemsOf(returned)
  /\ hands' = HandTracker_update(ItemsOf(returned), overlap_threshold)
  /\ analysis' = [ analysis EXCEPT !.pc = "eval" ]
  /\ UNCHANGED << overlap_threshold, trackerVars, deckVars, evalVars, running, clock,
                  last_inference, frame_queue, data_queue, frames_read, capture, display,
                  displayed, cycle_starts, stored, restVars >>

\* evals = hand_evaluator.evaluate_hands(hands); deck = self.deck.cards.  An
\* exception of the EV engine leaves evaluate_hands and _analysis_loop: the
\* thread ends.
AnalysisEval ==
  /\ analysis.pc = "eval"
  /\ \E engine \in EngineAnswers :
       \E ret \in { evaluate_hands(hands, engine) } :
         /\ eval_hands' = hands
         /\ ev_engine' = engine
         /\ eval_ret' = [ raised |-> ret.raised, results |-> ret.results, deck |-> cards ]
         /\ ev_calls' = ret.calls
         /\ IF ret.raised
            THEN analysis' = [ analysis EXCEPT !.pc = "crashed", !.error = "engine" ]
            ELSE analysis' = [ analysis EXCEPT
                                 !.pc = "put",
                                 !.bundle = [ frame |-> analysis.frame,
                                              tracks |-> returned,
                                              hands |-> hands,
                                              evals |-> ret.results,
                                              cycle_deck |-> cards ] ]
  /\ UNCHANGED << trackerVars, deckVars, handVars, running, clock, last_inference,
                  frame_queue, data_queue, frames_read, capture, display, displayed,
                  cycle_starts, stored, restVars >>

\* _enqueue_safe(data_queue, bundle): q.put(item, timeout=0.01), and then
\* self.last_inference = now.
AnalysisPut ==
  /\ analysis.pc = "put"
  /\ IF Len(data_queue) < maxsize
     THEN /\ data_queue' = Append(data_queue, analysis.bundle)
          /\ stored' = [ stored EXCEPT !.data_queue = analysis.bundle.frame ]
          /\ last_inference' = analysis.now
          /\ analysis' = [ analysis EXCEPT !.pc = "loop", !.now = 0, !.frame = 0,
                                           !.bundle = NoBundle ]
     ELSE /\ analysis' = [ analysis EXCEPT !.pc = "full" ]
          /\ UNCHANGED << data_queue, stored, last_inference >>
  /\ UNCHANGED << running, clock, frame_queue, frames_read, capture, display, displayed,
                  cycle_starts, stageVars, restVars >>

\* except queue.Full: q.get_nowait() discards the stored bundle, or raises
\* queue.Empty when the display thread has taken it meanwhile.
AnalysisFull ==
  /\ analysis.pc = "full"
  /\ IF data_queue # << >>
     THEN /\ data_queue' = Tail(data_queue)
          /\ analysis' = [ analysis EXCEPT !.pc = "reput" ]
     ELSE /\ analysis' = [ analysis EXCEPT !.pc = "crashed", !.error = "queue.Empty" ]
          /\ UNCHANGED data_queue
  /\ UNCHANGED << running, clock, last_inference, frame_queue, frames_read, capture,
                  display, displayed, cycle_starts, stored, stageVars, restVars >>

\* q.put(item) after the discard, and then self.last_inference = now.
AnalysisReput ==
  /\ analysis.pc = "reput"
  /\ Len(data_queue) < maxsize
  /\ data_queue' = Append(data_queue, analysis.bundle)
  /\ stored' = [ stored EXCEPT !.data_queue = analysis.bundle.frame ]
  /\ last_inference' = analysis.now
  /\ analysis' = [ analysis EXCEPT !.pc = "loop", !.now = 0, !.frame = 0,
                                   !.bundle = NoBundle ]
  /\ UNCHANGED << running, clock, frame_queue, frames_read, capture, display, displayed,
                  cycle_starts, stageVars, restVars >>

\* _display_loop: "while self.running" and display.process_events(), which
\* answers False when the user quits.
DisplayLoop ==
  /\ display.pc = "loop"
  /\ IF ~running
     THEN /\ display' = [ display EXCEPT !.pc = "done" ]
          /\ UNCHANGED running
     ELSE \E events \in BOOLEAN :
            IF events
            THEN /\ display' = [ display EXCEPT !.pc = "get" ]
                 /\ UNCHANGED running
            ELSE /\ running' = FALSE
                 /\ display' = [ display EXCEPT !.pc = "done" ]
  /\ UNCHANGED << clock, last_inference, frame_queue, data_queue, frames_read, capture,
                  analysis, displayed, cycle_starts, stored, stageVars, restVars >>

\* bundle = self._dequeue_safe(self.data_queue)
DisplayGet ==
  /\ display.pc = "get"
  /\ IF data_queue # << >>
     THEN /\ data_queue' = Tail(data_queue)
          /\ display' = [ display EXCEPT !.pc = "show", !.bundle = Head(data_queue) ]
     ELSE /\ display' = [ display EXCEPT !.pc = "loop" ]
          /\ UNCHANGED data_queue
  /\ UNCHANGED << running, clock, last_inference, frame_queue, frames_read, capture,
                  analysis, displayed, cycle_starts, stored, stageVars, restVars >>

\* annotate and display.update(frame, tracks, hands, evals, deck): deck is the
\* dict object of the CardDeck, which update copies when it is called.
DisplayShow ==
  /\ display.pc = "show"
  /\ displayed' = [ frame |-> display.bundle.frame,
                    evals |-> display.bundle.evals,
                    deck |-> cards,
                    cycle_deck |-> display.bundle.cycle_deck ]
  /\ display' = [ display EXCEPT !.pc = "loop", !.bundle = NoBundle ]
  /\ UNCHANGED << running, clock, last_inference, frame_queue, data_queue, frames_read,
                  capture, analysis, cycle_starts, stored, stageVars, restVars >>

CaptureStep == CaptureLoop \/ CapturePut \/ CaptureFull \/ CaptureReput

\* The steps of the analysis thread other than AnalysisTrack and AnalysisHands.
AnalysisStep ==
  \/ AnalysisLoop
  \/ AnalysisGet
  \/ AnalysisCallback
  \/ AnalysisEval
  \/ AnalysisPut
  \/ AnalysisFull
  \/ AnalysisReput

DisplayStep == DisplayLoop \/ DisplayGet \/ DisplayShow

EngineNext ==
  \/ EngineStart
  \/ Tick
  \/ CaptureLoop
  \/ CapturePut
  \/ CaptureFull
  \/ CaptureReput
  \/ AnalysisLoop
  \/ AnalysisGet
  \/ AnalysisTrack
  \/ AnalysisCallback
  \/ AnalysisHands
  \/ AnalysisEval
  \/ AnalysisPut
  \/ AnalysisFull
  \/ AnalysisReput
  \/ DisplayLoop
  \/ DisplayGet
  \/ DisplayShow

EngineSpec == EngineInit /\ [][EngineNext]_vars

\* start() is called, and the interpreter runs every thread that can take a
\* step again and again.  AnalysisTrack can be taken exactly when the analysis
\* thread is at "track" and moves it on, so its weak fairness says that the
\* thread is not at "track" for ever; likewise AnalysisHands and "hands".
EngineFairSpec ==
  /\ EngineSpec
  /\ WF_vars(EngineStart)
  /\ WF_vars(CaptureStep)
  /\ WF_vars(AnalysisStep)
  /\ []<>(analysis.pc # "track")
  /\ []<>(analysis.pc # "hands")
  /\ WF_vars(DisplayStep)

(***************************************************************************)
(* Properties of the track lifecycle (Spec)                                *)
(***************************************************************************)
LiveIds == DOMAIN tracks
UsedIds == 0 .. next_track_id - 1
DeadIds == UsedIds \ LiveIds

\* C1: for confirmation_frames N >= 2, a track that has been matched in every
\* update since the one that spawned it is Confirmed exactly from its N-th
\* consecutive update on, and the callback has run for it exactly from that
\* update on.  With N = 5, deck_count = 1 and a single track ever spawned whose
\* detections carry label 0, the Shoe holds 4 aces after the 4th frame and 3
\* after the 5th.
C1_ConfirmedOnNthFrame ==
  /\ \A t \in LiveIds :
       (confirmation_frames >= 2 /\ clean[t]) =>
         /\ (tracks[t].state = CONFIRMED) <=> (streak[t] >= confirmation_frames)
         /\ callbacks[t] = (IF streak[t] >= confirmation_frames THEN 1 ELSE 0)
  /\ ( /\ confirmation_frames = 5
       /\ deck_count = 1
       /\ next_track_id = 1
       /\ 0 \in LiveIds
       /\ clean[0]
       /\ tracks[0].label = 0 ) =>
         /\ (streak[0] = 4 => cards[0] = 4)
         /\ (streak[0] = 5 => cards[0] = 3)

\* C1 witness: the end-to-end scenario after its 5th frame.
C1_Witness ==
  /\ confirmation_frames = 5
  /\ deck_count = 1
  /\ next_track_id = 1
  /\ 0 \in LiveIds
  /\ clean[0]
  /\ streak[0] = 5
  /\ tracks[0].label = 0
  /\ tracks[0].state = CONFIRMED
  /\ callbacks[0] = 1
  /\ cards[0] = 3

\* C2: on_confirm_callback is invoked at most once for each track id.
C2_CallbackAtMostOnce ==
  \A t \in UsedIds : callbacks[t] <= 1

\* C2 witness: a Confirmed track that missed, was matched again until its hits
\* reached confirmation_frames, and has had the callback once.
C2_Witness ==
  \E t \in LiveIds :
    /\ ~clean[t]
    /\ tracks[t].state = CONFIRMED
    /\ tracks[t].hits >= confirmation_frames
    /\ callbacks[t] = 1

\* C3: a track left unmatched stays in the returned map while its consecutive
\* unmatched updates number at most removal_frames, is absent from the returned
\* map and from the live set after the (removal_frames + 1)-th, and a removed
\* id never appears in a later returned map.
C3_Step ==
  /\ \A t \in LiveIds :
       IF t \in AssignedIds(assignments')
       THEN t \in DOMAIN tracks' /\ t \in DOMAIN returned'
       ELSE IF absent[t] + 1 <= removal_frames
            THEN t \in DOMAIN tracks' /\ t \in DOMAIN returned'
            ELSE t \notin DOMAIN tracks' /\ t \notin DOMAIN returned'
  /\ \A t \in DeadIds : t \notin DOMAIN tracks' /\ t \notin DOMAIN returned'

C3_StrictRemoval == [][C3_Step]_vars

\* C3 witness: with removal_frames = 1, one track survived a miss and another
\* id has been removed.
C3_Witness ==
  /\ removal_frames = 1
  /\ DeadIds # {}
  /\ \E t \in LiveIds : absent[t] = 1 /\ t \in DOMAIN returned

(***************************************************************************)
(* Properties of the association (Spec)                                    *)
(***************************************************************************)
\* The tracks that registered a hit in the step, and the tracks it spawned.
HitIds == { t \in LiveIds \cap DOMAIN tracks' : tracks'[t].hits = tracks[t].hits + 1 }
SpawnedIds == DOMAIN tracks' \ LiveIds

\* The IoU of track t's box before the step with detection j of the step.
StepIoU(t, j) == IoU(tracks[t].bbox, detections'[j].bbox)

\* C4: a track registers a hit only with a detection the solver paired it with
\* and whose IoU with the track's previous box is >= iou_threshold; a solver
\* pair with IoU < iou_threshold leaves the track with a miss (or removed by
\* it) and the detection spawning a new Tentative track.
C4_Step ==
  /\ \A t \in HitIds :
       \E j \in DOMAIN detections' :
         /\ << t, j >> \in solver'
         /\ StepIoU(t, j) >= Percent(iou_threshold)
         /\ tracks'[t].bbox = detections'[j].bbox
  /\ \A p \in solver' :
       (detections' # << >> /\ StepIoU(p[1], p[2]) < Percent(iou_threshold)) =>
         /\ p[1] \notin HitIds
         /\ \/ p[1] \notin DOMAIN tracks'
            \/ /\ tracks'[p[1]].hits = 0
               /\ tracks'[p[1]].misses = tracks[p[1]].misses + 1
               /\ tracks'[p[1]].bbox = tracks[p[1]].bbox
         /\ \E s \in SpawnedIds :
              tracks'[s] = NewTrack(s, detections'[p[2]].bbox, detections'[p[2]].label)

C4_ThresholdEnforced == [][C4_Step]_vars

\* C4 witness: the solver paired a track with a detection below the threshold;
\* the pair was rejected, the track carries the miss and the detection's box
\* belongs to a track spawned by that update.
C4_Witness ==
  \E p \in solver \ assignments :
    /\ p[1] \in LiveIds
    /\ absent[p[1]] = 1
    /\ \E s \in LiveIds :
         /\ streak[s] = 1
         /\ clean[s]
         /\ tracks[s].bbox = detections[p[2]].bbox

\* No two pairs of a set share a track or a detection.
OneToOne(m) == \A p, q \in m : p # q => (p[1] # q[1] /\ p[2] # q[2])

\* C5: the solver's assignment is one-to-one, complete and of minimal total
\* cost, the accepted pairs are one-to-one, and every detection of the frame
\* either registers a hit on exactly one existing track or spawns exactly one
\* new Tentative track.
C5_Step ==
  /\ OneToOne(solver')
  /\ OneToOne(assignments')
  /\ assignments' \subseteq solver'
  /\ solver' \in CompleteAssignments(LiveIds, DOMAIN detections')
  /\ \A m \in CompleteAssignments(LiveIds, DOMAIN detections') :
       TotalCost(tracks, detections', solver') <= TotalCost(tracks, detections', m)
  /\ \A j \in DOMAIN detections' :
       LET hit   == { t \in HitIds : tracks'[t].bbox = detections'[j].bbox
                                     /\ tracks'[t].label = detections'[j].label }
           spawn == { s \in SpawnedIds : tracks'[s].bbox = detections'[j].bbox }
       IN  /\ Cardinality(hit) + Cardinality(spawn) = 1
           /\ \A s \in spawn :
                tracks'[s] = NewTrack(s, detections'[j].bbox, detections'[j].label)
  /\ Cardinality(HitIds) + Cardinality(SpawnedIds) = Len(detections')

C5_OneToOneAssociation == [][C5_Step]_vars

\* C5 witness: a frame of two detections against two live tracks, one
\* detection hitting a track and the other spawning a new one.
C5_Witness ==
  /\ Len(detections) = 2
  /\ Cardinality(solver) = 2
  /\ Cardinality(assignments) = 1
  /\ \E s \in LiveIds : streak[s] = 1 /\ clean[s]

\* C6: every live track id is below next_track_id and is the track's own id;
\* the counter never decreases; the ids given out in an update are exactly
\* the ids from the old counter up to the new one, one per spawned track, so
\* no id is given twice, not even the id of a removed track.
C6_Step ==
  /\ next_track_id' >= next_track_id
  /\ SpawnedIds = next_track_id .. next_track_id' - 1
  /\ Cardinality(SpawnedIds) =
       Cardinality(DOMAIN detections' \ { p[2] : p \in assignments' })
  /\ \A s \in SpawnedIds : \A t \in UsedIds : t < s
  /\ \A i, j \in DOMAIN detections' :
       \A s, u \in SpawnedIds :
         ( /\ i < j
           /\ tracks'[s].bbox = detections'[i].bbox
           /\ tracks'[u].bbox = detections'[j].bbox ) => s < u

C6_IdsNeverReused ==
  /\ [](\A t \in LiveIds : t < next_track_id /\ tracks[t].track_id = t)
  /\ [][C6_Step]_vars

\* C6 witness: an id has been removed and a track spawned later is live.
C6_Witness ==
  \E d \in DeadIds : \E t \in LiveIds : d < t /\ streak[t] = 1 /\ clean[t]

\* C7: every live track has hits = 0 or misses = 0; a track spawned by an
\* update leaves it with hits = 1, misses = 0 and state Tentative.
C7_Step ==
  \A s \in SpawnedIds :
    /\ tracks'[s].hits = 1
    /\ tracks'[s].misses = 0
    /\ tracks'[s].state = TENTATIVE

C7_HitsOrMissesZero ==
  /\ [](\A t \in LiveIds : tracks[t].hits = 0 \/ tracks[t].misses = 0)
  /\ [][C7_Step]_vars

\* C7 witness: an update that spawned one track while another registered a miss.
C7_Witness ==
  /\ \E s \in LiveIds : streak[s] = 1 /\ clean[s] /\ tracks[s].hits = 1
  /\ \E t \in LiveIds : absent[t] = 1 /\ tracks[t].misses = 1 /\ tracks[t].hits = 0

\* C8: for every confirmation_frames >= 1, every live track whose hits is
\* >= confirmation_frames is Confirmed and has had the callback.
C8_ConfirmedWheneverHitsReached ==
  \A t \in LiveIds :
    tracks[t].hits >= confirmation_frames =>
      (tracks[t].state = CONFIRMED /\ callbacks[t] >= 1)

(***************************************************************************)
(* Properties of the Shoe                                                  *)
(***************************************************************************)
\* The tracks the step takes from Tentative to Confirmed.
ConfirmedInStep ==
  { t \in LiveIds \cap DOMAIN tracks' :
      tracks[t].state = TENTATIVE /\ tracks'[t].state = CONFIRMED }

\* C9 (Spec): in every update the Shoe loses, for each track going from
\* Tentative to Confirmed, one card of that track's label (a bucket at 0
\* stays at 0) and nothing else changes it: no count increases, remove_card is
\* called once per confirmation, and removing a track returns no card.
C9_Step ==
  /\ \A r \in Buckets : cards'[r] <= cards[r]
  /\ DOMAIN cards' = Buckets
  /\ remove_calls' = remove_calls + Cardinality(ConfirmedInStep)
  /\ \A r \in Buckets :
       cards'[r] = Max(0, cards[r] - Cardinality({ t \in ConfirmedInStep :
                                                     Normalize(tracks'[t].label) = r }))
  /\ \A t \in ConfirmedInStep : callbacks'[t] = callbacks[t] + 1

C9_ShoeFollowsConfirmations == [][C9_Step]_vars

\* C9 witness: two confirmations so far, two remove_card calls, and a
\* Confirmed track has been removed without its card coming back.
C9_Witness ==
  /\ remove_calls = 2
  /\ \E d \in DeadIds : callbacks[d] = 1
  /\ cards[0] + cards[9] = 4 * deck_count + 16 * deck_count - 2

\* C10 (DeckSpec): every count is >= 0, and remove_card on a bucket whose
\* count is 0 returns False and leaves every count unchanged.
C10_Step ==
  ( /\ deck_last'.op = "remove_card"
    /\ deck_calls' = deck_calls + 1
    /\ Normalize(deck_last'.label) \in Buckets
    /\ cards[Normalize(deck_last'.label)] = 0 ) =>
      (deck_last'.ret = FALSE /\ cards' = cards)

C10_CountsNeverNegative ==
  /\ [](\A r \in DOMAIN cards : cards[r] >= 0)
  /\ [][C10_Step]_vars

\* C10 witness: remove_card was called on an empty bucket and reported failure.
C10_Witness ==
  /\ deck_last.op = "remove_card"
  /\ deck_last.ret = FALSE
  /\ Normalize(deck_last.label) \in Buckets
  /\ cards[Normalize(deck_last.label)] = 0

\* The bucket the claims give a label: the face labels 9..12 share bucket 9.
ClaimedBucket(l) == IF l \in {9, 10, 11, 12} THEN 9 ELSE l

\* The step is one more call on the deck.
DeckCall == deck_calls' = deck_calls + 1

\* C11 (DeckSpec): add_card and remove_card take labels 9, 10, 11 and 12 to
\* bucket 9 and change no other bucket; a label that is no bucket after
\* normalisation returns False and leaves the Shoe unchanged; the key set of
\* the Shoe is 0..9 after any sequence of calls.
C11_Step ==
  DeckCall =>
    LET b == ClaimedBucket(deck_last'.label)
    IN  /\ \A r \in (0 .. 9) \ {b} : cards'[r] = cards[r]
        /\ b \notin 0 .. 9 => (deck_last'.ret = FALSE /\ cards' = cards)
        /\ (b \in 0 .. 9 /\ deck_last'.op = "add_card") =>
              (deck_last'.ret = TRUE /\ cards'[b] = cards[b] + 1)
        /\ (b \in 0 .. 9 /\ deck_last'.op = "remove_card" /\ cards[b] > 0) =>
              (deck_last'.ret = TRUE /\ cards'[b] = cards[b] - 1)

C11_LabelsNormalised ==
  /\ [](DOMAIN cards = 0 .. 9)
  /\ [][C11_Step]_vars

\* C11 witness: a face label was added to bucket 9, then a label that is no
\* bucket was refused.
C11_Witness ==
  /\ deck_calls = 2
  /\ deck_last = [ op |-> "remove_card", label |-> 13, ret |-> FALSE ]
  /\ cards = [ NewDeck(deck_count) EXCEPT ![9] = @ + 1 ]

\* C12 (DeckSpec): buckets 0..8 stay <= 4 * deck_count and bucket 9 stays
\* <= 16 * deck_count after any sequence of add_card / remove_card calls.
C12_CountsWithinMaximum ==
  /\ \A r \in 0 .. 8 : cards[r] <= 4 * deck_count
  /\ cards[9] <= 16 * deck_count

\* C13 (DeckSpec): a Shoe built with deck_count d starts with 4 * d cards of
\* each rank 0..8 and 16 * d of rank 9; a successful remove_card takes exactly
\* one card from the label's bucket and leaves every other bucket unchanged;
\* with deck_count = 1 rank 9 goes from 16 to 15 by one remove_card(9).
C13_Step ==
  /\ (DeckCall /\ deck_last'.op = "remove_card" /\ deck_last'.ret = TRUE) =>
       LET b == ClaimedBucket(deck_last'.label)
       IN  /\ b \in 0 .. 9
           /\ cards'[b] = cards[b] - 1
           /\ \A r \in (0 .. 9) \ {b} : cards'[r] = cards[r]
  /\ ( /\ DeckCall
       /\ deck_calls = 0
       /\ deck_count = 1
       /\ deck_last'.op = "remove_card"
       /\ deck_last'.label = 9 ) => (cards[9] = 16 /\ cards'[9] = 15)

C13_InitialCountsAndRemoval ==
  /\ [](deck_calls = 0 =>
          /\ \A r \in 0 .. 8 : cards[r] = 4 * deck_count
          /\ cards[9] = 16 * deck_count)
  /\ [][C13_Step]_vars

\* C13 witness: deck_count = 1, one remove_card(9) succeeded, 15 tens remain.
C13_Witness ==
  /\ deck_count = 1
  /\ deck_calls = 1
  /\ deck_last = [ op |-> "remove_card", label |-> 9, ret |-> TRUE ]
  /\ cards[9] = 15
  /\ \A r \in 0 .. 8 : cards[r] = 4

(***************************************************************************)
(* Properties of the hands (HandSpec)                                      *)
(***************************************************************************)
\* The input tracks by state, and the input track on a box.
ConfirmedInput == { i \in DOMAIN hand_tracks : hand_tracks[i].state = CONFIRMED }
TentativeInput == { i \in DOMAIN hand_tracks : hand_tracks[i].state = TENTATIVE }
InputOn(box) == CHOOSE i \in DOMAIN hand_tracks : hand_tracks[i].bbox = box

\* The boxes of a hand, and the boxes of all hands.
BoxSet(hand) == { hand.boxes[k] : k \in DOMAIN hand.boxes }
BoxesInHands == UNION { BoxSet(hands[key]) : key \in DOMAIN hands }

\* Two boxes overlap by at least the threshold of the hand tracker.
Linked(b1, b2) ==
  b1 # b2 /\ overlap_table[<< b1, b2 >>] >= Percent(overlap_threshold)

\* C14: every card and box of every hand returned by HandTracker.update
\* comes from an input track whose state is Confirmed, and no Tentative input
\* track has its box in the Dealer hand or in a Player hand.
C14_OnlyConfirmedInHands ==
  /\ \A key \in DOMAIN hands :
       /\ Len(hands[key].cards) = Len(hands[key].boxes)
       /\ \A k \in DOMAIN hands[key].boxes :
            \E i \in ConfirmedInput :
              /\ hand_tracks[i].bbox = hands[key].boxes[k]
              /\ hand_tracks[i].label = hands[key].cards[k]
  /\ \A i \in TentativeInput : hand_tracks[i].bbox \notin BoxesInHands

\* C14 witness: a Tentative track lies over a Confirmed one; the hands hold
\* the Confirmed card alone.
C14_Witness ==
  \E i \in TentativeInput : \E j \in ConfirmedInput :
    /\ Linked(hand_tracks[i].bbox, hand_tracks[j].bbox)
    /\ "Dealer" \in DOMAIN hands
    /\ hand_tracks[j].bbox \in BoxSet(hands["Dealer"])

\* The connected components of the Confirmed boxes under Linked.
ConfirmedBoxes == { hand_tracks[i].bbox : i \in ConfirmedInput }

RECURSIVE Reach(_)
Reach(S) ==
  LET more == S \cup { c \in ConfirmedBoxes : \E b \in S : Linked(b, c) }
  IN  IF more = S THEN S ELSE Reach(more)

Components == { Reach({b}) : b \in ConfirmedBoxes }
Singletons == { C \in Components : Cardinality(C) = 1 }
Multiples == { C \in Components : Cardinality(C) >= 2 }
PlayerKeys == DOMAIN hands \ {"Dealer"}

\* The hand holds exactly the cards of the set of boxes C, each once.
HoldsExactly(hand, C) ==
  /\ BoxSet(hand) = C
  /\ Len(hand.boxes) = Cardinality(C)
  /\ Len(hand.cards) = Cardinality(C)
  /\ \A k \in DOMAIN hand.boxes : hand.cards[k] = hand_tracks[InputOn(hand.boxes[k])].label

\* C15: the key "Dealer" is present iff there is a component of size 1, and
\* that hand holds exactly the cards of all components of size 1; every
\* component of size >= 2 is exactly one Player hand holding exactly its
\* cards, and there is no other Player hand.
C15_DealerPoolsSingletons ==
  /\ ("Dealer" \in DOMAIN hands) <=> (Singletons # {})
  /\ "Dealer" \in DOMAIN hands => HoldsExactly(hands["Dealer"], UNION Singletons)
  /\ \A C \in Multiples :
       Cardinality({ key \in PlayerKeys : HoldsExactly(hands[key], C) }) = 1
  /\ \A key \in PlayerKeys : BoxSet(hands[key]) \in Multiples

\* C15 witness: two cards lying apart pooled in the Dealer hand next to a
\* Player hand of three cards.
C15_Witness ==
  /\ Cardinality(Singletons) = 2
  /\ "Dealer" \in DOMAIN hands
  /\ Len(hands["Dealer"].cards) = 2
  /\ \E key \in PlayerKeys : Len(hands[key].cards) = 2

\* The smallest x1 over the boxes of a hand.
MinX(hand) == SetMin({ b[1] : b \in BoxSet(hand) })

\* C16: the Player hands are keyed "Player 1" .. "Player N" without gaps,
\* N being the number of components of size >= 2, and the smallest x1 of
\* Player i is <= the smallest x1 of Player i+1.
C16_PlayersLeftToRight ==
  /\ PlayerKeys = { PlayerKey(i) : i \in 1 .. Cardinality(Multiples) }
  /\ \A i \in 1 .. Cardinality(Multiples) - 1 :
       MinX(hands[PlayerKey(i)]) <= MinX(hands[PlayerKey(i + 1)])

\* C16 witness: the first Confirmed track of the input belongs to the hand on
\* the right, which is Player 2.
C16_Witness ==
  /\ PlayerKeys = {"Player 1", "Player 2"}
  /\ MinX(hands["Player 1"]) < MinX(hands["Player 2"])
  /\ hand_tracks # << >>
  /\ hand_tracks[1].state = CONFIRMED
  /\ hand_tracks[1].bbox \in BoxSet(hands["Player 2"])

\* C17: for every ordering of the same tracks, HandTracker.update gives every
\* player hand, identified by its set of boxes, the same "Player N" key.
C17_NumberingIndependentOfOrder ==
  \A p \in Permutations(DOMAIN hand_tracks) :
    LET other == HandTracker_update([ i \in DOMAIN hand_tracks |-> hand_tracks[p[i]] ],
                                    overlap_threshold)
    IN  \A key \in PlayerKeys :
          key \in DOMAIN other /\ BoxSet(other[key]) = BoxSet(hands[key])

(***************************************************************************)
(* Properties of the score (ScoreSpec)                                     *)
(***************************************************************************)
\* The value of a rank with every ace valued 1, and the hard total of a list.
HardValue(r) == IF r = 0 THEN 1 ELSE IF r = 9 THEN 10 ELSE r + 1

RECURSIVE HardTotal(_)
HardTotal(cs) == IF cs = << >> THEN 0 ELSE HardValue(Head(cs)) + HardTotal(Tail(cs))

AcesIn(cs) == Cardinality({ k \in DOMAIN cs : cs[k] = 0 })

\* The totals obtainable by valuing each ace as 1 or 11 that do not bust.
TotalsWithin21(cs) ==
  { t \in { HardTotal(cs) + 10 * k : k \in 0 .. AcesIn(cs) } : t <= 21 }

\* The standard blackjack total: the largest total <= 21 if there is one,
\* otherwise the total with every ace valued 1.
StandardTotal(cs) ==
  IF TotalsWithin21(cs) # {}
  THEN CHOOSE t \in TotalsWithin21(cs) : \A u \in TotalsWithin21(cs) : u <= t
  ELSE HardTotal(cs)

\* C18: _score_hand returns the standard soft/hard blackjack total of every
\* list of ranks 0..9; score([0,9]) = 21, score([0,0,9]) = 12,
\* score([0,0]) = 12 and a lone ace scores 11.
C18_StandardTotals ==
  /\ score_ret = StandardTotal(score_cards)
  /\ score_cards = << 0, 9 >> => score_ret = 21
  /\ score_cards = << 0, 0, 9 >> => score_ret = 12
  /\ score_cards = << 0, 0 >> => score_ret = 12
  /\ score_cards = << 0 >> => score_ret = 11

\* C18 witness: two aces and a ten scored 12.
C18_Witness ==
  /\ score_cards = << 0, 0, 9 >>
  /\ score_ret = 12

\* C19 as stated: _score_hand([8,8,8]) equals 30.
C19_ThreeEightsScoreThirty ==
  score_cards = << 8, 8, 8 >> => score_ret = 30

\* C19 as amended: _score_hand([8,8,8]) equals 27: three cards of rank 8,
\* each valued 9, no ace promotion, the bust total returned unchanged.
C19_ThreeEightsScoreTwentySeven ==
  score_cards = << 8, 8, 8 >> => score_ret = 27

\* C19 witness: three cards of rank 8 have been scored.
C19_Witness ==
  /\ score_cards = << 8, 8, 8 >>
  /\ AcesIn(score_cards) = 0
  /\ score_ret > 21

(***************************************************************************)
(* Properties of the grouping (GroupSpec)                                  *)
(***************************************************************************)
\* The partition of the indices a list of groups stands for.
AsPartition(groups) ==
  { { groups[g][k] : k \in DOMAIN groups[g] } : g \in DOMAIN groups }

\* Boxes i and j of the grouped list are adjacent: their overlap ratio, the
\* intersection over the smaller area, is >= the threshold.
RatioAdjacent(i, j) ==
  /\ i # j
  /\ Area(group_boxes[i]) > 0
  /\ Area(group_boxes[j]) > 0
  /\ InterArea(group_boxes[i], group_boxes[j]) * 100
       >= group_threshold * Min(Area(group_boxes[i]), Area(group_boxes[j]))

RECURSIVE RatioReach(_)
RatioReach(S) ==
  LET more == S \cup { j \in DOMAIN group_boxes : \E i \in S : RatioAdjacent(i, j) }
  IN  IF more = S THEN S ELSE RatioReach(more)

RatioComponents == { RatioReach({i}) : i \in DOMAIN group_boxes }

\* C20: both routines return exactly the connected components of the graph
\* in which boxes i and j are adjacent iff overlap_ratio(i, j) >= threshold,
\* hence the same partition of the indices, also when a ratio equals the
\* threshold.
C20_GroupingsAgree ==
  /\ AsPartition(dfs_groups) = RatioComponents
  /\ AsPartition(uf_groups) = RatioComponents
  /\ AsPartition(dfs_groups) = AsPartition(uf_groups)

(***************************************************************************)
(* Properties of the geometry (OverlapSpec, IouSpec)                       *)
(***************************************************************************)
\* Box a lies fully inside box b; the two boxes share no interior point; the
\* box has no area.
Inside(a, b) == b[1] <= a[1] /\ b[2] <= a[2] /\ a[3] <= b[3] /\ a[4] <= b[4]
Apart(a, b) == a[3] <= b[1] \/ b[3] <= a[1] \/ a[4] <= b[2] \/ b[4] <= a[2]
Flat(a) == a[1] = a[3] \/ a[2] = a[4]

\* C21 (OverlapSpec): compute_overlap is symmetric, is exactly 1 when one
\* box of nonzero area lies fully inside the other, in either argument order,
\* and is 0 when the boxes do not intersect or one of them has zero area.
C21_OverlapSymmetric ==
  LET a == pair_boxes[1]
      b == pair_boxes[2]
  IN  /\ overlap_ret.ratio = overlap_ret.swapped
      /\ ((Inside(a, b) /\ ~Flat(a)) \/ (Inside(b, a) /\ ~Flat(b))) =>
            (overlap_ret.ratio = 10 ^ 8 /\ overlap_ret.swapped = 10 ^ 8)
      /\ (Apart(a, b) \/ Flat(a) \/ Flat(b)) =>
            (overlap_ret.ratio = 0 /\ overlap_ret.swapped = 0)

\* C21 witness: a box of nonzero area strictly inside a larger one, ratio 1
\* in both orders.
C21_Witness ==
  /\ Inside(pair_boxes[1], pair_boxes[2])
  /\ pair_boxes[1] # pair_boxes[2]
  /\ ~Flat(pair_boxes[1])
  /\ overlap_ret = [ ratio |-> 10 ^ 8, swapped |-> 10 ^ 8 ]

\* C22 (IouSpec): the intersection area of _compute_iou is >= 0 and at most
\* area1 + area2 - intersection, 0 <= iou <= 1, the entry for (a, b) equals
\* the entry for (b, a), and for identical boxes the intersection equals the
\* union.
C22_IouWithinUnitInterval ==
  /\ iou_ret.interArea >= 0
  /\ iou_ret.interArea <= iou_ret.unionArea
  /\ 0 <= iou_ret.iou
  /\ iou_ret.iou <= 10 ^ 8
  /\ iou_ret.iou = iou_ret.swapped
  /\ pair_boxes[1] = pair_boxes[2] => iou_ret.interArea = iou_ret.unionArea

\* C22 witness: two different boxes that overlap in part, and their IoU is
\* strictly between 0 and 1.
C22_Witness ==
  /\ pair_boxes[1] # pair_boxes[2]
  /\ 0 < iou_ret.interArea
  /\ iou_ret.interArea < iou_ret.unionArea
  /\ 0 < iou_ret.iou
  /\ iou_ret.iou < 10 ^ 8

(***************************************************************************)
(* Properties of the hand evaluation (EvalSpec)                            *)
(***************************************************************************)
\* hands_info has no "Dealer" entry, or the Dealer's card list is empty.
NoDealerCards ==
  \/ "Dealer" \notin DOMAIN eval_hands
  \/ "cards" \notin DOMAIN eval_hands["Dealer"]
  \/ eval_hands["Dealer"].cards = << >>

NonDealerHands == DOMAIN eval_hands \ { "Dealer" }

\* C23 (EvalSpec): evaluate_hands returns an empty result and makes no EV
\* engine call whenever hands_info has no "Dealer" entry or the Dealer's card
\* list is empty; otherwise it returns a result with exactly one entry per
\* non-Dealer hand and none for "Dealer".
C23_OneEntryPerPlayerHand ==
  /\ ~eval_ret.raised
  /\ NoDealerCards => (eval_ret.results = << >> /\ ev_calls = << >>)
  /\ ~NoDealerCards => DOMAIN eval_ret.results = NonDealerHands

\* The position of an action in the evaluation order stand, hit, double,
\* split, surrender.
OrderOf(a) ==
  CHOOSE i \in 1 .. 5 : << "stand", "hit", "double", "split", "surrender" >>[i] = a

\* C24 (EvalSpec): for every evaluated player hand, best_action is an action
\* of evs whose EV is >= the EV of every other action of evs, and no action
\* with the same EV comes earlier in the order stand, hit, double, split,
\* surrender.
C24_BestActionFirstMaximum ==
  \A hand \in DOMAIN eval_ret.results :
    LET evs  == eval_ret.results[hand].evs
        best == eval_ret.results[hand].best_action
    IN  /\ best \in DOMAIN evs
        /\ \A a \in DOMAIN evs : evs[a] <= evs[best]
        /\ \A a \in DOMAIN evs : evs[a] = evs[best] => OrderOf(best) <= OrderOf(a)

\* C24 witness: two hands are evaluated; for the first, hit and split tie for
\* the largest EV above stand, and hit is the best action.
C24_Witness ==
  /\ DOMAIN eval_ret.results = { "Player 1", "Player 2" }
  /\ eval_ret.results["Player 1"].evs["stand"] = -1
  /\ eval_ret.results["Player 1"].evs["hit"] = 1
  /\ eval_ret.results["Player 1"].evs["split"] = 1
  /\ eval_ret.results["Player 1"].best_action = "hit"

\* C25 (EvalSpec): when EV engine calls raise during evaluate_hands, the
\* method still returns; every non-Dealer hand has an entry whose evs holds
\* exactly the actions whose call did not raise, with the value the engine
\* gave, and best_action is "unavailable" only if evs is empty.
C25_FailedActionOmitted ==
  /\ ~eval_ret.raised
  /\ ~NoDealerCards =>
        \A hand \in NonDealerHands :
          /\ hand \in DOMAIN eval_ret.results
          /\ DOMAIN eval_ret.results[hand].evs =
                { a \in ActionSet : ev_engine[<< hand, a >>] # Raises }
          /\ \A a \in DOMAIN eval_ret.results[hand].evs :
                << eval_ret.results[hand].evs[a] >> = ev_engine[<< hand, a >>]
          /\ (eval_ret.results[hand].best_action = "unavailable") =
                (DOMAIN eval_ret.results[hand].evs = {})

(***************************************************************************)
(* Properties of the engine (EngineSpec, EngineFairSpec)                   *)
(***************************************************************************)
\* The thread has left its loop, by the loop test or by an exception.
Exited(thread) == thread.pc \in { "done", "crashed" }

\* The analysis thread has dequeued a frame and not yet finished the cycle.
MidCycle ==
  analysis.pc \in { "track", "callback", "hands", "eval", "put", "full", "reput" }

\* C26 (EngineSpec): frame_queue and data_queue hold at most one item; the
\* item a consumer can dequeue is the one stored last; and no _enqueue_safe
\* call that found the previous item undrained ends without storing its item.
C26_SingleSlotOverwrite ==
  /\ Len(frame_queue) <= 1
  /\ Len(data_queue) <= 1
  /\ frame_queue # << >> => Head(frame_queue) = stored.frame_queue
  /\ data_queue # << >> => Head(data_queue).frame = stored.data_queue
  /\ capture.error # "queue.Empty"
  /\ analysis.error # "queue.Empty"

\* C27 (EngineFairSpec): once start() has run and running is False, the three
\* loops eventually exit; the analysis loop leaves by its loop test only from
\* the loop head; and a cycle that has dequeued a frame runs on to the end of
\* its enqueue, back at the loop head.
C27_CleanShutdown ==
  /\ (capture.pc # "idle" /\ ~running) ~> (Exited(capture) /\ Exited(analysis) /\ Exited(display))
  /\ [][analysis'.pc = "done" => analysis.pc \in { "loop", "done" }]_vars
  /\ MidCycle ~> (analysis.pc = "loop")

\* An iteration of the analysis loop that finds the frame queue empty goes
\* back to the loop head and leaves last_inference as it is.
C28_Step ==
  (analysis.pc = "get" /\ analysis'.pc = "loop") => last_inference' = last_inference

\* C28 (EngineSpec): the clock values sampled at the start of two consecutive
\* analysis cycles differ by at least inference_interval, and an iteration
\* that finds the frame queue empty does not advance last_inference.
C28_RateLimited ==
  /\ [](\A i \in 1 .. Len(cycle_starts) - 1 :
          cycle_starts[i + 1] - cycle_starts[i] >= inference_interval)
  /\ [][C28_Step]_vars

\* C28 witness: a second cycle has started, and an iteration is about to find
\* the frame queue empty.
C28_Witness ==
  /\ Len(cycle_starts) = 2
  /\ analysis.pc = "get"
  /\ frame_queue = << >>

\* C29 (EngineSpec): the deck counts display.update receives with a bundle
\* are the counts at the end of the analysis cycle that produced the bundle.
C29_DeckOfProducingCycle == displayed.deck = displayed.cycle_deck

\* C30 (EngineSpec): an exception inside an analysis cycle does not end the
\* analysis thread, which leaves its loop only after the frame source was
\* exhausted or the display quit, that is with running False.
C30_FailuresNonFatal ==
  /\ analysis.pc # "crashed"
  /\ Exited(analysis) => ~running

(***************************************************************************)
(* Further properties of CardTracker.update (Spec)                         *)
(***************************************************************************)
\* C31: an update with no live tracks turns every detection into a new
\* Tentative track carrying its box and label; an update with no detections
\* gives every live track a miss (hits reset, box, label and state kept; the
\* track is removed only when the miss takes it past removal_frames), spawns
\* nothing and leaves next_track_id alone; an update with neither returns an
\* empty map and leaves tracks, counter and Shoe unchanged.
C31_Step ==
  /\ tracks = << >> =>
       /\ DOMAIN tracks' = next_track_id .. next_track_id + Len(detections') - 1
       /\ assignments' = {}
       /\ \A j \in DOMAIN detections' :
            LET s == next_track_id + j - 1
            IN  /\ tracks'[s].bbox = detections'[j].bbox
                /\ tracks'[s].label = detections'[j].label
                /\ tracks'[s].state = TENTATIVE
                /\ returned'[s] = [ bbox |-> detections'[j].bbox,
                                    label |-> detections'[j].label,
                                    state |-> TENTATIVE ]
  /\ detections' = << >> =>
       /\ next_track_id' = next_track_id
       /\ DOMAIN tracks' \subseteq LiveIds
       /\ \A t \in LiveIds :
            IF t \in DOMAIN tracks'
            THEN tracks'[t] = [ tracks[t] EXCEPT !.misses = @ + 1, !.hits = 0 ]
            ELSE tracks[t].misses + 1 > removal_frames
  /\ (tracks = << >> /\ detections' = << >>) =>
       /\ returned' = << >>
       /\ tracks' = tracks
       /\ next_track_id' = next_track_id
       /\ cards' = cards

C31_UpdateEdgeCases == [][C31_Step]_vars

\* C31 witness: two detections met an empty tracker and became tracks 0 and 1,
\* and the update after them, with no detections, gave both a miss.
C31_Witness ==
  /\ next_track_id = 2
  /\ detections = << >>
  /\ LiveIds = { 0, 1 }
  /\ \A t \in LiveIds : absent[t] = 1 /\ tracks[t].misses = 1 /\ tracks[t].hits = 0

(***************************************************************************)
(* Further properties of the analysis cycle (EngineSpec)                   *)
(***************************************************************************)
\* C32 (EngineSpec): a cycle goes from the dequeue to the tracker update, whose
\* confirmation callbacks each remove one card of the track just confirmed
\* from the Shoe, from there to the hand update, which groups the map that
\* update returned, from there to the evaluation and from there to the
\* enqueue; once the update has returned the Shoe lacks one card for every
\* Confirmed track, and evaluate_hands receives those hands and reads the Shoe
\* as the update left it.
C32_Step ==
  /\ analysis'.pc = "track" => analysis.pc \in { "get", "track" }
  /\ analysis'.pc = "callback" => analysis.pc \in { "track", "callback" }
  /\ analysis'.pc = "hands" => analysis.pc \in { "track", "callback", "hands" }
  /\ analysis'.pc = "eval" => analysis.pc \in { "hands", "eval" }
  /\ analysis'.pc = "put" => analysis.pc \in { "eval", "put" }
  /\ (analysis.pc = "track" /\ analysis'.pc # "track") =>
       /\ detections' = EngineDetections
       /\ cards' = cards
       /\ analysis'.pc = "callback" =>
            /\ tracks[Head(analysis'.pending)].state = TENTATIVE
            /\ tracks'[Head(analysis'.pending)].state = CONFIRMED
  /\ (analysis.pc = "callback" /\ analysis' # analysis) =>
       /\ analysis'.pending = Tail(analysis.pending)
       /\ tracks[Head(analysis.pending)].state = CONFIRMED
       /\ callbacks'[Head(analysis.pending)] = callbacks[Head(analysis.pending)] + 1
       /\ \A r \in Buckets :
            cards'[r] = IF r = ClaimedBucket(tracks[Head(analysis.pending)].label)
                        THEN Max(0, cards[r] - 1) ELSE cards[r]
  /\ (analysis.pc = "hands" /\ analysis'.pc = "eval") =>
       /\ analysis.pending = << >>
       /\ hand_tracks' = ItemsOf(returned)
       /\ hands' = HandTracker_update(ItemsOf(returned), overlap_threshold)
       /\ cards' = cards
  /\ (analysis.pc = "eval" /\ analysis'.pc # "eval") =>
       /\ eval_hands' = hands
       /\ eval_ret'.deck = cards
       /\ cards' = cards

C32_StagesInOrder ==
  /\ [](analysis.pc \in { "put", "full", "reput" } =>
          (eval_ret.deck = cards /\ analysis.bundle.hands = eval_hands))
  /\ [](analysis.pc \in { "hands", "eval", "put", "full", "reput" } =>
          /\ returned = ReturnedMap(tracks)
          /\ \A r \in Buckets :
               cards[r] = NewDeck(deck_count)[r]
                            - Cardinality({ t \in LiveIds :
                                              /\ tracks[t].state = CONFIRMED
                                              /\ ClaimedBucket(tracks[t].label) = r }))
  /\ [][C32_Step]_vars

\* C32 witness: the cycle that confirmed the two 7s and the 10 has evaluated
\* Player 1 against the Dealer with a Shoe already short of those three cards.
C32_Witness ==
  /\ analysis.pc = "put"
  /\ \A t \in LiveIds : tracks[t].state = CONFIRMED /\ streak[t] = confirmation_frames
  /\ remove_calls = 3
  /\ ev_calls # << >>
  /\ eval_ret.deck[7] = 2
  /\ eval_ret.deck[9] = 15

\* C33 (ConfSpec): a detection whose confidence is below confidence_threshold
\* neither gives a track a hit nor spawns a track.
C33_Step ==
  \A j \in DOMAIN detections' :
    detections'[j].confidence < confidence_threshold =>
      /\ j \notin { p[2] : p \in assignments' }
      /\ \A s \in SpawnedIds : tracks'[s].bbox # detections'[j].bbox

C33_ConfidenceThresholdApplied == [][C33_Step]_vars

\* C34 (EngineSpec): no call of _enqueue_safe ends with an exception, whatever
\* the consumer does between the producer's steps: neither the capture thread
\* nor the analysis thread is ever ended by queue.Empty.
C34_EnqueueNeverRaises ==
  /\ capture.error # "queue.Empty"
  /\ analysis.error # "queue.Empty"
  /\ capture.pc # "crashed"

\* C35 (AssocSpec): after the association of an update no live track left
\* without a detection and no detection left without a track have boxes whose
\* IoU is >= iou_threshold.
C35_Step ==
  \A t \in LiveIds \ AssignedIds(assignments') :
    \A j \in DOMAIN detections' \ { p[2] : p \in assignments' } :
      StepIoU(t, j) < Percent(iou_threshold)

C35_NoMatchablePairLeft == [][C35_Step]_vars

\* C36 (Spec): a Confirmed track keeps, in every later update that leaves it
\* live, the label it had when it was confirmed (the label handed to the
\* callback): the update changes neither the track's label nor the label
\* reported for it.
C36_Step ==
  \A t \in LiveIds \cap DOMAIN tracks' :
    tracks[t].state = CONFIRMED =>
      /\ tracks'[t].label = tracks[t].label
      /\ returned'[t].label = tracks[t].label

C36_ConfirmedLabelKept == [][C36_Step]_vars

\* C37 (Spec): hits is the number of consecutive updates, up to the latest,
\* in which the track was spawned or matched; a miss sets it to 0; and a
\* track is confirmed by an update only if that update is at least the
\* confirmation_frames-th of such a run.
C37_Step ==
  /\ \A t \in ConfirmedInStep : streak'[t] >= confirmation_frames
  /\ \A t \in LiveIds \cap DOMAIN tracks' :
       t \notin AssignedIds(assignments') => tracks'[t].hits = 0

C37_ConsecutiveHitsOnly ==
  /\ [](\A t \in LiveIds : tracks[t].hits = streak[t])
  /\ [][C37_Step]_vars

\* C37 witness: with confirmation_frames = 2 a track was spawned, missed and
\* matched again: two updates contained it, a miss between them, and it is
\* still Tentative.
C37_Witness ==
  /\ confirmation_frames = 2
  /\ \E t \in LiveIds :
       /\ ~clean[t]
       /\ streak[t] = 1
       /\ tracks[t].hits = 1
       /\ tracks[t].state = TENTATIVE
       /\ callbacks[t] = 0

\* C38 (Spec): an update never takes a Confirmed track back to Tentative; a
\* track it leaves unmatched and live keeps its box, label and state, and is
\* returned with them; every track of the returned map is Tentative or
\* Confirmed.
C38_Step ==
  \A t \in LiveIds \cap DOMAIN tracks' :
    /\ tracks[t].state = CONFIRMED => tracks'[t].state = CONFIRMED
    /\ t \notin AssignedIds(assignments') =>
         /\ tracks'[t] = [ tracks[t] EXCEPT !.hits = tracks'[t].hits,
                                            !.misses = tracks'[t].misses ]
         /\ returned'[t] = [ bbox |-> tracks[t].bbox, label |-> tracks[t].label,
                             state |-> tracks[t].state ]

C38_StateOnlyForward ==
  /\ [](/\ DOMAIN returned = LiveIds
        /\ \A t \in DOMAIN returned : returned[t].state \in { TENTATIVE, CONFIRMED })
  /\ [][C38_Step]_vars

\* C38 witness: a Confirmed track went undetected in the latest update and is
\* returned as Confirmed with its box and label.
C38_Witness ==
  \E t \in LiveIds :
    /\ callbacks[t] = 1
    /\ absent[t] = 1
    /\ tracks[t].misses = 1
    /\ returned[t] = [ bbox |-> tracks[t].bbox, label |-> tracks[t].label,
                       state |-> CONFIRMED ]

(***************************************************************************)
(* Further properties of HandTracker.update (HandSpec)                     *)
(***************************************************************************)
\* The positions of all hands: a hand key and an index into its cards.
Slots == UNION { { << key, k >> : k \in DOMAIN hands[key].cards } : key \in DOMAIN hands }

\* Position s holds the card and the box of input track i.
Holds(s, i) ==
  /\ hands[s[1]].cards[s[2]] = hand_tracks[i].label
  /\ hands[s[1]].boxes[s[2]] = hand_tracks[i].bbox

\* C39 (HandSpec): the hands are "Dealer" and "Player N" entries whose cards
\* and boxes have equal length; there are as many positions in all hands as
\* Confirmed input tracks; every position holds the label and the box of one
\* Confirmed input track, and every Confirmed input track's label and box are
\* at as many positions as there are Confirmed input tracks with that label
\* and box: each track is in exactly one hand, once.
C39_HandsPartitionConfirmed ==
  /\ \A key \in DOMAIN hands :
       /\ key = "Dealer" \/ \E n \in 1 .. Len(hand_tracks) : key = PlayerKey(n)
       /\ Len(hands[key].cards) = Len(hands[key].boxes)
       /\ Len(hands[key].cards) >= 1
  /\ Cardinality(Slots) = Cardinality(ConfirmedInput)
  /\ \A s \in Slots : \E i \in ConfirmedInput : Holds(s, i)
  /\ \A i \in ConfirmedInput :
       Cardinality({ s \in Slots : Holds(s, i) }) =
         Cardinality({ j \in ConfirmedInput :
                         /\ hand_tracks[j].label = hand_tracks[i].label
                         /\ hand_tracks[j].bbox = hand_tracks[i].bbox })

\* C39 witness: four Confirmed tracks of both ranks fill a Dealer hand of two
\* single cards and a Player hand of two.
C39_Witness ==
  /\ Cardinality(ConfirmedInput) = 4
  /\ DOMAIN hands = { "Dealer", "Player 1" }
  /\ Len(hands["Dealer"].cards) = 2
  /\ Len(hands["Player 1"].cards) = 2
  /\ \E i, j \in ConfirmedInput : hand_tracks[i].label # hand_tracks[j].label

====
